---- MODULE Spec2Model ----
(***************************************************************************)
(* Model of the AT-command transport engine of hardwario/lora-modem        *)
(* (src/python/lora.py: TypeABZ, EventSubscription, raise_for_error,       *)
(* MurataModem.join).                                                      *)
(*                                                                         *)
(* Bytes are one-character strings, byte strings (Lines, link buffers) are *)
(* sequences of them, Python str values (event names, decoded results)     *)
(* are TLA+ strings.                                                       *)
(***************************************************************************)
EXTENDS Integers, Sequences, FiniteSets, TLC

\* ------------------------------------------------------------------ bounds

\* number of application threads calling into the engine
NThreads == 2

\* number of unsolicited frames the device sends on its own
MaxFrames == 2

\* the guard interval an engine is configured with, in clock ticks
Guard == 2

\* the clock stops here
MaxTime == 3

Threads == 1..NThreads

\* listeners registered in the scopes of the event bus specification
MaxRegs == 3

\* listener calls made by the publications of the event bus specification
MaxCalls == 2

\* bytes the device sends in the framing specification
MaxBytes == 4

\* ------------------------------------------------------ bytes and literals

CR == "\r"
LF == "\n"

B_AT == <<"A", "T">>
B_OK == <<"+", "O", "K">>
B_OKEQ == <<"+", "O", "K", "=">>
B_ERREQ == <<"+", "E", "R", "R", "=">>
B_EVENT == <<"+", "E", "V", "E", "N", "T">>
B_ANS == <<"+", "A", "N", "S">>
B_ACK == <<"+", "A", "C", "K">>
B_NOACK == <<"+", "N", "O", "A", "C", "K">>
B_RECV == <<"+", "R", "E", "C", "V">>
\* TowerSDK.prefix and the Lines read_sdk_response looks for
SDK_PREFIX == <<"$", "L", "O", "R", "A", ":", " ">>
SDK_OK == <<"O", "K">>
SDK_ERROR == <<"E", "R", "R", "O", "R">>

CMD_JOIN == <<"+", "J", "O", "I", "N">>
CMD_DR == <<"+", "D", "R", "?">>
CMD_BAND == <<"+", "B", "A", "N", "D", "?">>
CMD_DBG == <<"$", "D", "B", "G">>
CMD_REBOOT == <<"+", "R", "E", "B", "O", "O", "T">>
CMD_UTX == <<"+", "U", "T", "X", " ", "1">>
\* the command of TowerSDK.open: SDK_AT('$LORA>ATCI=1')
CMD_ATCI == <<"$", "L", "O", "R", "A", ">", "A", "T", "C", "I", "=", "1">>
\* a command with a character outside ASCII: AT('\u00e9')
CMD_BAD == <<"U+00E9">>
\* the payload of tx(b'x')
TX_DATA == <<"x">>

Min(a, b) == IF a < b THEN a ELSE b

\* bytes.startswith(prefix)
StartsWith(s, p) == Len(s) >= Len(p) /\ SubSeq(s, 1, Len(p)) = p

\* the Python slice s[n:]
From(s, n) == SubSeq(s, n + 1, Len(s))

\* bytes.split(b',') : always at least one piece, pieces may be empty
RECURSIVE SplitAcc(_, _, _)
SplitAcc(s, cur, out) ==
    IF s = <<>> THEN Append(out, cur)
    ELSE IF Head(s) = "," THEN SplitAcc(Tail(s), <<>>, Append(out, cur))
    ELSE SplitAcc(Tail(s), Append(cur, Head(s)), out)

\* a split that keeps the first two pieces only
SplitTwo(s) ==
    LET all == SplitAcc(s, <<>>, <<>>)
    IN  SubSeq(all, 1, Min(2, Len(all)))

Split(s) == SplitAcc(s, <<>>, <<>>)

DigitVal == [c \in {"0", "1", "2", "3", "4", "5", "6", "7", "8", "9"} |->
               CASE c = "0" -> 0 [] c = "1" -> 1 [] c = "2" -> 2 [] c = "3" -> 3
                 [] c = "4" -> 4 [] c = "5" -> 5 [] c = "6" -> 6 [] c = "7" -> 7
                 [] c = "8" -> 8 [] c = "9" -> 9]

IsDigits(s) == s # <<>> /\ \A i \in 1..Len(s) : s[i] \in DOMAIN DigitVal

RECURSIVE DigitsVal(_, _)
DigitsVal(s, n) == IF s = <<>> THEN n ELSE DigitsVal(Tail(s), 10 * n + DigitVal[Head(s)])

\* int(b) of a byte string: an optional sign and at least one decimal digit,
\* ValueError (ok = FALSE) otherwise.  (int() also strips blanks and accepts
\* '_' between digits; no Line of the model holds either.)
ParseInt(s) ==
    IF s # <<>> /\ Head(s) \in {"-", "+"}
    THEN IF IsDigits(Tail(s))
         THEN [ok |-> TRUE,
               val |-> IF Head(s) = "-" THEN 0 - DigitsVal(Tail(s), 0) ELSE DigitsVal(Tail(s), 0)]
         ELSE [ok |-> FALSE, val |-> 0]
    ELSE IF IsDigits(s) THEN [ok |-> TRUE, val |-> DigitsVal(s, 0)]
    ELSE [ok |-> FALSE, val |-> 0]

\* tuple(map(int, payload.split(b','))) : ok = FALSE when any piece raises
ParseInts(s) ==
    LET pieces == Split(s)
        parsed == [i \in 1..Len(pieces) |-> ParseInt(pieces[i])]
    IN  [ok |-> \A i \in 1..Len(pieces) : parsed[i].ok,
         vals |-> [i \in 1..Len(pieces) |-> parsed[i].val]]

\* bytes.decode('ascii', errors='replace') of a byte string of ASCII bytes
RECURSIVE decode(_)
decode(s) == IF s = <<>> THEN "" ELSE Head(s) \o decode(Tail(s))

\* ------------------------------------------------------------ error mapping

ERR_UNKNOWN_CMD == -1
ERR_ACCESS_DENIED == -50

\* modem_error_classes
modem_error_classes == (ERR_UNKNOWN_CMD :> "UnknownCommand") @@ (ERR_ACCESS_DENIED :> "AccessDenied")

\* number of arguments, besides self, that each class's __init__ takes
init_arity == [ModemError |-> 2, UnknownCommand |-> 1, AccessDenied |-> 1]

\* what a call returns or raises: kind names the returned/raised type, val is
\* the returned byte string, errno the code a ModemError carries
Outcome(kind, val, errno) == [kind |-> kind, val |-> val, errno |-> errno]

\* ModemError.__init__ / UnknownCommand.__init__ / AccessDenied.__init__,
\* called with nargs arguments
construct(cls, nargs, errno) ==
    IF init_arity[cls] # nargs THEN Outcome("TypeError", <<>>, 0)
    ELSE IF cls = "UnknownCommand" THEN Outcome(cls, <<>>, ERR_UNKNOWN_CMD)
    ELSE IF cls = "AccessDenied" THEN Outcome(cls, <<>>, ERR_ACCESS_DENIED)
    ELSE Outcome(cls, <<>>, errno)

\* raise_for_error(errno): always raises cls(message, errno)
raise_for_error(errno) ==
    LET cls == IF errno \in DOMAIN modem_error_classes
               THEN modem_error_classes[errno] ELSE "ModemError"
    IN  construct(cls, 2, errno)

\* ------------------------------------------------------------ response read

\* the body of TypeABZ.read_inline_response after the queue get
inline_result(response) ==
    IF StartsWith(response, B_ERREQ) /\ Len(response) > 6
    THEN LET n == ParseInt(From(response, 5))
         IN  IF n.ok THEN raise_for_error(n.val) ELSE Outcome("ValueError", <<>>, 0)
    ELSE IF response = B_OK THEN Outcome("ok", <<>>, 0)
    ELSE IF StartsWith(response, B_OKEQ) /\ Len(response) > 4
    THEN Outcome("value", From(response, 4), 0)
    ELSE Outcome("Exception", <<>>, 0)

\* b'\n'.join(body)
RECURSIVE Join(_)
Join(body) ==
    IF body = <<>> THEN <<>>
    ELSE IF Len(body) = 1 THEN Head(body)
    ELSE Head(body) \o <<LF>> \o Join(Tail(body))

\* one turn of the loop of TypeABZ.read_multiline_response after the queue
\* get returned line: kind "more" when line joins the body and the loop goes
\* on, otherwise what the call returns or raises
multiline_result(bdy, line) ==
    IF Len(bdy) = 0 /\ StartsWith(line, B_ERREQ)
    THEN LET n == ParseInt(From(line, 5))
         IN  IF n.ok THEN raise_for_error(n.val) ELSE Outcome("ValueError", <<>>, 0)
    ELSE IF line = B_OK THEN Outcome("value", Join(bdy), 0)
    ELSE Outcome("more", <<>>, 0)

\* ------------------------------------------------------------ demultiplexer

\* one publication: emit(name, *args).  The arguments are kept by type:
\* ints (the integer arguments), flag ("True"/"False" for the boolean of
\* 'ack', "" when there is none) and bytes (the payload of 'message').
Em(name, ints, flag, bytes) == [name |-> name, ints |-> ints, flag |-> flag, bytes |-> bytes]

\* what receive(data) does: the publications in order, the Lines put on the
\* response queue, the number of bytes pulled from the port, and whether it
\* raised
Effect(raised, emits, put, nread) ==
    [raised |-> raised, emits |-> emits, put |-> put, nread |-> nread]

\* port.read(size) on a port opened with timeout=0: returns at once with the
\* bytes that are there, at most size of them
port_read(avail, size) == SubSeq(avail, 1, Min(IF size < 0 THEN 0 ELSE size, Len(avail)))

\* receive as LoRaModule.reader of the older engine classifies: the scoped
\* event carries no argument, and only Lines that start with +OK or +ERR
\* reach the response queue
receive_legacy(data, avail) ==
    IF StartsWith(data, B_EVENT)
    THEN LET payload == From(data, 7)
             params == ParseInts(payload)
         IN  IF Len(payload) = 0
             THEN Effect(FALSE, <<Em("event", <<>>, "", <<>>)>>, <<>>, 0)
             ELSE IF ~params.ok \/ Len(params.vals) # 2
             THEN Effect(TRUE, <<>>, <<>>, 0)
             ELSE Effect(FALSE,
                         << Em("event", params.vals, "", <<>>),
                            Em("event=" \o ToString(params.vals[1]), <<>>, "", <<>>),
                            Em("event=" \o ToString(params.vals[1]) \o "," \o ToString(params.vals[2]),
                               <<>>, "", <<>>) >>,
                         <<>>, 0)
    ELSE IF StartsWith(data, B_ANS)
    THEN LET params == ParseInts(From(data, 5))
         IN  IF ~params.ok THEN Effect(TRUE, <<>>, <<>>, 0)
             ELSE Effect(FALSE, <<Em("answer", params.vals, "", <<>>)>>, <<>>, 0)
    ELSE IF StartsWith(data, B_ACK)
    THEN Effect(FALSE, <<Em("ack", <<>>, "True", <<>>)>>, <<>>, 0)
    ELSE IF StartsWith(data, B_NOACK)
    THEN Effect(FALSE, <<Em("ack", <<>>, "False", <<>>)>>, <<>>, 0)
    ELSE IF StartsWith(data, B_RECV)
    THEN LET params == ParseInts(From(data, 6))
         IN  IF ~params.ok \/ Len(params.vals) # 2 THEN Effect(TRUE, <<>>, <<>>, 0)
             ELSE LET read == port_read(avail, params.vals[2] + 2)
                  IN  Effect(FALSE, <<Em("message", <<params.vals[1]>>, "", From(read, 2))>>,
                             <<>>, Len(read))
    ELSE IF StartsWith(data, B_OK) \/ StartsWith(data, <<"+", "E", "R", "R">>)
    THEN Effect(FALSE, <<>>, <<data>>, 0)
    ELSE Effect(FALSE, <<>>, <<>>, 0)

\* the body of the loop of LoRaModule.reader (src/tools/lora.py) for the Line
\* data: the same prefixes as TypeABZ.receive, the arguments of an event
\* passed as one tuple, and the response queue only for the Lines that start
\* with +OK or +ERR; any other Line is reported in debug mode and left
reader_legacy(data, avail) ==
    IF StartsWith(data, B_EVENT)
    THEN LET payload == From(data, 7)
             params == ParseInts(payload)
         IN  IF Len(payload) = 0
             THEN Effect(FALSE, <<Em("event", <<>>, "", <<>>)>>, <<>>, 0)
             ELSE IF ~params.ok \/ Len(params.vals) # 2
             THEN Effect(TRUE, <<>>, <<>>, 0)
             ELSE Effect(FALSE,
                         << Em("event", params.vals, "", <<>>),
                            Em("event=" \o ToString(params.vals[1]), <<>>, "", <<>>),
                            Em("event=" \o ToString(params.vals[1]) \o "," \o ToString(params.vals[2]),
                               <<>>, "", <<>>) >>,
                         <<>>, 0)
    ELSE IF StartsWith(data, B_ANS)
    THEN LET params == ParseInts(From(data, 5))
         IN  IF ~params.ok THEN Effect(TRUE, <<>>, <<>>, 0)
             ELSE Effect(FALSE, <<Em("answer", params.vals, "", <<>>)>>, <<>>, 0)
    ELSE IF StartsWith(data, B_ACK)
    THEN Effect(FALSE, <<Em("ack", <<>>, "True", <<>>)>>, <<>>, 0)
    ELSE IF StartsWith(data, B_NOACK)
    THEN Effect(FALSE, <<Em("ack", <<>>, "False", <<>>)>>, <<>>, 0)
    ELSE IF StartsWith(data, B_RECV)
    THEN LET params == ParseInts(From(data, 6))
         IN  IF ~params.ok \/ Len(params.vals) # 2 THEN Effect(TRUE, <<>>, <<>>, 0)
             ELSE LET read == port_read(avail, params.vals[2] + 2)
                  IN  Effect(FALSE, <<Em("message", <<params.vals[1]>>, "", From(read, 2))>>,
                             <<>>, Len(read))
    ELSE IF StartsWith(data, B_OK) \/ StartsWith(data, <<"+", "E", "R", "R">>)
    THEN Effect(FALSE, <<>>, <<data>>, 0)
    ELSE Effect(FALSE, <<>>, <<>>, 0)

\* TypeABZ.receive(data); avail is what the port holds when it is called
receive(data, avail) ==
    IF StartsWith(data, B_EVENT)
    THEN LET payload == From(data, 7)
             params == ParseInts(payload)
         IN  IF Len(payload) = 0
             THEN Effect(FALSE, <<Em("event", <<>>, "", <<>>)>>, <<>>, 0)
             ELSE IF ~params.ok \/ Len(params.vals) # 2
             THEN Effect(TRUE, <<>>, <<>>, 0)
             ELSE Effect(FALSE,
                         << Em("event", params.vals, "", <<>>),
                            Em("event=" \o ToString(params.vals[1]), <<params.vals[2]>>, "", <<>>),
                            Em("event=" \o ToString(params.vals[1]) \o "," \o ToString(params.vals[2]),
                               <<>>, "", <<>>) >>,
                         <<>>, 0)
    ELSE IF StartsWith(data, B_ANS)
    THEN LET params == ParseInts(From(data, 5))
         IN  IF ~params.ok THEN Effect(TRUE, <<>>, <<>>, 0)
             ELSE Effect(FALSE, <<Em("answer", params.vals, "", <<>>)>>, <<>>, 0)
    ELSE IF StartsWith(data, B_ACK)
    THEN Effect(FALSE, <<Em("ack", <<>>, "True", <<>>)>>, <<>>, 0)
    ELSE IF StartsWith(data, B_NOACK)
    THEN Effect(FALSE, <<Em("ack", <<>>, "False", <<>>)>>, <<>>, 0)
    ELSE IF StartsWith(data, B_RECV)
    THEN LET params == ParseInts(From(data, 6))
         IN  IF ~params.ok \/ Len(params.vals) # 2 THEN Effect(TRUE, <<>>, <<>>, 0)
             ELSE LET read == port_read(avail, params.vals[2] + 2)
                  IN  Effect(FALSE, <<Em("message", <<params.vals[1]>>, "", From(read, 2))>>,
                             <<>>, Len(read))
    ELSE Effect(FALSE, <<>>, <<data>>, 0)

\* a TowerSDK.receive that hands the whole Line to the base engine
tower_receive_whole(data, avail) ==
    IF StartsWith(data, SDK_PREFIX)
    THEN [base |-> receive(data, avail), sdk |-> <<>>]
    ELSE [base |-> Effect(FALSE, <<>>, <<>>, 0), sdk |-> <<data>>]

\* TowerSDK.receive(data): base is what super().receive does with the Line
\* after the prefix, sdk the Lines put on self.sdk_response
tower_receive(data, avail) ==
    IF StartsWith(data, SDK_PREFIX)
    THEN [base |-> receive(From(data, Len(SDK_PREFIX)), avail), sdk |-> <<>>]
    ELSE [base |-> Effect(FALSE, <<>>, <<>>, 0), sdk |-> <<data>>]

\* ---------------------------------------------------------------- line reader

\* a read_line that drops no byte
ignorable_none(c) == FALSE

\* read_line: if c == b'\r': continue
ignorable(c) == c = CR

\* TypeABZ.read_line over the bytes the port holds: line is the accumulator,
\* buf the bytes not yet read.  done = TRUE when a Line is returned, FALSE
\* when the bytes ran out and the read blocks with line kept.
RECURSIVE read_line(_, _)
read_line(line, buf) ==
    IF buf = <<>> THEN [done |-> FALSE, line |-> line, rest |-> buf]
    ELSE IF ignorable(Head(buf)) THEN read_line(line, Tail(buf))
    ELSE IF Head(buf) = LF
    THEN IF Len(line) = 0 THEN read_line(line, Tail(buf))
         ELSE [done |-> TRUE, line |-> line, rest |-> Tail(buf)]
    ELSE read_line(Append(line, Head(buf)), Tail(buf))

\* ------------------------------------------------------------------- state

VARIABLES
    pc,             \* pc[t]: where application thread t is ("idle" before its
                    \* operation, "done" after it)
    op,             \* op[t]: the operation t runs: "AT", "join", "reset" or "tx"
    cmd,            \* op[t]'s command (the cmd argument of AT)
    rv,             \* rv[t]: what t's last operation returned or raised
    lock,           \* self.lock (RLock): owner and hold count, count = 0 when free
    tx,             \* link, host to device: the writes the device has not handled
    rx,             \* link, device to host: the bytes the port holds
    devtx,          \* bytes the device has sent that have not reached the port
    nframes,        \* unsolicited frames the device has sent
    rpc,            \* where the reader thread is: "read_line" or "receive", "ended"
                    \* when it is over
    acc,            \* read_line's accumulator (its local line)
    data,           \* the Line read_line returned to reader
    response,       \* self.response (Queue)
    subscriptions,  \* self.subscriptions: the open scopes, named by their thread
    listeners,      \* listeners[t]: the listeners of t's scope, in registration order
    q,              \* q[t]: the queue local to t's wait_for
    got,            \* got[t]: the Line t's read_inline_response took (its local response)
    rxlog,          \* history: the Lines read_line has returned, in order
    nreadlog,       \* history: per Line handled by receive, the bytes it pulled from the port
    emitlog,        \* history: the publications, each with the index of its Line in rxlog
    nget,           \* history: number of Lines taken from self.response
    mark,           \* history: mark[t] = Len(emitlog) when t wrote its command
    inline,         \* inline[t]: the inline argument of t's AT call
    body,           \* body[t]: the local body of t's read_multiline_response
    rpcw,           \* history: rpcw[t] = whether the reader was running or had ended
                    \* when t wrote its command
    nodata,         \* history: a read of the port returned zero bytes to read_line
    port,           \* self.port: "None" before open(), "open" after it
    dpc,            \* detect_baud_rate: where the call is
    speed,          \* detect_baud_rate: index in speeds of the candidate under probe
    dpos,           \* detect_baud_rate: index in response of the byte expected next
    probes,         \* history: per candidate opened, its speed and what each read returned
    detected,       \* what detect_baud_rate returned or raised
    guard,          \* self.guard, in clock ticks (None: no throttling)
    clock,          \* the clock that datetime.now() reads, in ticks
    prev_at,        \* self.prev_at
    slept,          \* history: slept[t] = the clock, prev_at and the sleep of t's guard test
    nreg,           \* history: number of listeners registered so far; a listener
                    \* carries the number of its registration as id
    calls,          \* history: the listeners that the publications of Publish
                    \* have called, in the order of the calls
    wire,           \* history: the bytes that DeviceByte has put on the link
    it,             \* the iterator of the for loop of TypeABZ.emit, for the
                    \* publication that EmitBegin starts
    sdk_response    \* TowerSDK: self.sdk_response

vars == << pc, op, cmd, rv, lock, tx, rx, devtx, nframes, rpc, acc, data,
           response, subscriptions, listeners, q, got, rxlog, nreadlog, emitlog,
           nget, mark, inline, body, rpcw, nodata, port, dpc, speed, dpos,
           probes, detected, guard, clock, prev_at, slept, nreg, calls,
           wire, it, sdk_response >>

appvars == << pc, op, cmd, rv, lock, tx, subscriptions, got, mark >>
readervars == << rpc, acc, data, rxlog, nreadlog, emitlog >>
callvars == << inline, body, rpcw >>
detectvars == << port, dpc, speed, dpos, probes, detected >>
clockvars == << guard, clock, slept >>
busvars == << nreg, calls, wire, it, sdk_response >>

\* no publication is under way in the stepwise emit
NoIter == [on |-> FALSE, rem |-> <<>>, used |-> 0, start |-> {}, seen |-> {},
           e |-> Em("", <<>>, "", <<>>), failed |-> FALSE]

\* Python None where an integer may stand
None == -1

\* TypeABZ.__init__ and what open() sets up, but for self.port and self.guard:
\* no scope, an empty response queue, a free lock, the reader thread started
\* and blocked in read_line, no command completed, no detection called
Constructed ==
    /\ pc = [t \in Threads |-> "idle"]
    /\ op = [t \in Threads |-> "none"]
    /\ cmd = [t \in Threads |-> <<>>]
    /\ rv = [t \in Threads |-> Outcome("none", "", 0)]
    /\ lock = [owner |-> 0, count |-> 0]
    /\ tx = <<>>
    /\ rx = <<>>
    /\ devtx = <<>>
    /\ nframes = 0
    /\ rpc = "read_line"
    /\ acc = <<>>
    /\ data = <<>>
    /\ response = <<>>
    /\ subscriptions = {}
    /\ listeners = [t \in Threads |-> <<>>]
    /\ q = [t \in Threads |-> <<>>]
    /\ got = [t \in Threads |-> <<>>]
    /\ rxlog = <<>>
    /\ nreadlog = <<>>
    /\ emitlog = <<>>
    /\ nget = 0
    /\ mark = [t \in Threads |-> 0]
    /\ inline = [t \in Threads |-> TRUE]
    /\ body = [t \in Threads |-> <<>>]
    /\ rpcw = [t \in Threads |-> "none"]
    /\ nodata = FALSE
    /\ dpc = "idle"
    /\ speed = 0
    /\ dpos = 0
    /\ probes = <<>>
    /\ detected = [kind |-> "none", val |-> 0]
    /\ clock = 0
    /\ prev_at = None
    /\ slept = [t \in Threads |-> [at |-> 0, prev |-> None, dur |-> 0]]
    /\ nreg = 0
    /\ calls = <<>>
    /\ wire = <<>>
    /\ it = NoIter
    /\ sdk_response = <<>>

\* TypeABZ(pathname) followed by open(): the port is open, no guard interval
Init ==
    /\ Constructed
    /\ port = "open"
    /\ guard = None

\* self.prev_at when AT leaves its with block: the assignment
\* self.prev_at = datetime.now() follows the reply read, so it runs when the
\* read returned (ok) and is skipped when the read raised
at_exit(ok, prev, t) == IF ok THEN t ELSE prev

\* ------------------------------------------------------------------ the lock

\* RLock.acquire succeeds for t: the lock is free or t holds it
CanAcquireNoExclusion(t) == TRUE

CanAcquire(t) == lock.count = 0 \/ lock.owner = t

Acquired(t) == [owner |-> t, count |-> lock.count + 1]

\* a release that frees the lock whatever its depth
ReleasedAll == [owner |-> 0, count |-> 0]

\* RLock.release, at the end of a with block: one hold less, and the lock is
\* free when the last hold is gone
Released == [owner |-> IF lock.count = 1 THEN 0 ELSE lock.owner, count |-> lock.count - 1]

\* ----------------------------------------------------------------- event bus

\* a listener that stays registered after it was called
kept_after_call_all(kept, l) == Append(kept, l)

\* what the emitter keeps of a listener it has called: a listener registered
\* with once is removed by the call, one registered with on stays
kept_after_call(kept, l) == IF l.once THEN kept ELSE Append(kept, l)

\* EventSubscription.emit(name, *args) on one scope: every listener registered
\* under name is called in registration order and put on called; a listener
\* registered with once is removed as it is called.  A listener is a callback
\* that puts the arguments on the queue of its owner (the callback of
\* wait_for, or of lncheck).
RECURSIVE sub_emit(_, _, _, _, _)
sub_emit(ls, kept, qs, e, called) ==
    IF ls = <<>> THEN [listeners |-> kept, q |-> qs, called |-> called]
    ELSE IF Head(ls).event = e.name
    THEN sub_emit(Tail(ls),
                  kept_after_call(kept, Head(ls)),
                  [qs EXCEPT ![Head(ls).owner] = Append(@, e)],
                  e,
                  Append(called, Head(ls)))
    ELSE sub_emit(Tail(ls), Append(kept, Head(ls)), qs, e, called)

\* the orders in which a for loop may visit the members of the set S
Orders(S) ==
    { o \in [1..Cardinality(S) -> S] : \A i, j \in 1..Cardinality(S) : o[i] = o[j] => i = j }

\* TypeABZ.emit: for sub in self.subscriptions: sub.emit(...), the scopes
\* visited in the order given
RECURSIVE emit(_, _, _, _, _)
emit(order, lsn, qs, e, called) ==
    IF order = <<>> THEN [listeners |-> lsn, q |-> qs, called |-> called]
    ELSE LET s == Head(order)
             r == sub_emit(lsn[s], <<>>, qs, e, called)
         IN  emit(Tail(order), [lsn EXCEPT ![s] = r.listeners], r.q, e, r.called)

\* one of the orders in which the open scopes may be visited.  The listeners
\* of wait_for put on queues of their own, one per scope, so what a
\* publication leaves in listeners and q is the same for every order.
AnyOrder == CHOOSE o \in Orders(subscriptions) : TRUE

\* the publications of one Line, in order
RECURSIVE emit_all(_, _, _)
emit_all(es, lsn, qs) ==
    IF es = <<>> THEN [listeners |-> lsn, q |-> qs]
    ELSE LET r == emit(AnyOrder, lsn, qs, Head(es), <<>>)
         IN  emit_all(Tail(es), r.listeners, r.q)

\* -------------------------------------------------------- application threads

\* what an application thread may run: AT('+DR?'), AT('+BAND?'), join()
Programs == { [op |-> "AT", cmd |-> CMD_DR, inline |-> TRUE],
              [op |-> "AT", cmd |-> CMD_BAND, inline |-> TRUE],
              [op |-> "join", cmd |-> CMD_JOIN, inline |-> TRUE] }

\* the call with a multi-line reply: AT('$DBG', inline=False)
ProgramsMulti == { [op |-> "AT", cmd |-> CMD_DBG, inline |-> FALSE] }

\* the operations of MurataModem that the reset and uplink specification
\* runs: reset() and tx(b'x')
ProgramsOps == { [op |-> "reset", cmd |-> CMD_REBOOT, inline |-> TRUE],
                 [op |-> "tx", cmd |-> CMD_UTX, inline |-> TRUE] }

\* the call TowerSDK.open makes
ProgramsSDK == { [op |-> "SDK_AT", cmd |-> CMD_ATCI, inline |-> TRUE] }

\* an AT call whose command cannot be encoded
ProgramsBad == { [op |-> "AT", cmd |-> CMD_BAD, inline |-> TRUE] }

\* the first step of operation o: reset starts with flush_atci, join and tx
\* with the lock, AT with its throttling
Entry(o) ==
    IF o = "reset" THEN "f_write"
    ELSE IF o \in {"join", "tx"} THEN "j_lock"
    ELSE IF o = "SDK_AT" THEN "sdk_lock"
    ELSE IF guard = None THEN "at_lock" ELSE "at_guard"

\* cmd.encode('ascii') returns: every character of the command is ASCII
encodable(c) == \A i \in 1..Len(c) : c[i] # "U+00E9"

\* the wait argument of the AT call of operation o: tx calls AT(wait=False)
at_wait(o) == o # "tx"

\* the event name operation o passes to wait_for: join waits for 'event',
\* reboot for 'event=0,0'
wait_event(o) == IF o = "join" THEN "event" ELSE "event=0,0"

\* whether operation o passes a timeout to wait_for: join does, reboot
\* does not
wait_bounded(o) == o = "join"

\* where t goes when AT has returned (ok = TRUE) or raised: an AT caller is
\* done; join goes on to wait_for, or leaves its with blocks on an exception
AfterAT(t, ok) == IF op[t] = "AT" THEN "done" ELSE IF ok THEN "wf_once" ELSE "j_close"

\* the sleep of AT's throttling as the remaining part of the guard interval
guard_sleep_remaining(g, t, prev) ==
    IF g # None /\ prev # None /\ t - prev < g THEN g - (t - prev) ELSE 0

\* the throttling of TypeABZ.AT: the seconds it sleeps before it takes the
\* lock, for the guard interval g, the clock reading t and self.prev_at
guard_sleep(g, t, prev) ==
    IF g # None /\ prev # None /\ t - prev < g THEN g ELSE 0

\* where AT starts: at its throttling when a guard interval is configured
ATEntry == IF guard = None THEN "at_lock" ELSE "at_guard"

\* thread t starts its operation
Call(t, prog) ==
    /\ pc[t] = "idle"
    /\ op' = [op EXCEPT ![t] = prog.op]
    /\ cmd' = [cmd EXCEPT ![t] = prog.cmd]
    /\ rv' = [rv EXCEPT ![t] = Outcome("none", "", 0)]
    /\ got' = [got EXCEPT ![t] = <<>>]
    /\ inline' = [inline EXCEPT ![t] = prog.inline]
    /\ pc' = [pc EXCEPT ![t] = Entry(prog.op)]
    /\ UNCHANGED << lock, tx, subscriptions, listeners, q, mark, nget, response >>
    /\ UNCHANGED << rx, devtx, nframes >>
    /\ UNCHANGED readervars
    /\ UNCHANGED << body, rpcw, nodata, detectvars, busvars, clockvars, prev_at >>

\* MurataModem.join: with self.modem.lock
JoinLock(t) ==
    /\ pc[t] = "j_lock"
    /\ CanAcquire(t)
    /\ lock' = Acquired(t)
    /\ pc' = [pc EXCEPT ![t] = "j_scope"]
    /\ UNCHANGED << op, cmd, rv, tx, subscriptions, listeners, q, got, mark, nget, response >>
    /\ UNCHANGED << rx, devtx, nframes >>
    /\ UNCHANGED readervars
    /\ UNCHANGED << callvars, nodata, detectvars, busvars, clockvars, prev_at >>

\* MurataModem.join: with self.modem.events as events (TypeABZ.events up to
\* its yield): a new scope with no listener joins self.subscriptions
JoinScope(t) ==
    /\ pc[t] = "j_scope"
    /\ subscriptions' = subscriptions \cup {t}
    /\ listeners' = [listeners EXCEPT ![t] = <<>>]
    /\ pc' = [pc EXCEPT ![t] = ATEntry]
    /\ UNCHANGED << op, cmd, rv, lock, tx, q, got, mark, nget, response >>
    /\ UNCHANGED << rx, devtx, nframes >>
    /\ UNCHANGED readervars
    /\ UNCHANGED << callvars, nodata, detectvars, busvars, clockvars, prev_at >>

\* TypeABZ.AT: now = datetime.now(); the test of self.prev_at against the
\* guard interval; sleep(self.guard) is entered when the test holds
ATGuard(t) ==
    /\ pc[t] = "at_guard"
    /\ LET d == guard_sleep(guard, clock, prev_at)
       IN  /\ slept' = [slept EXCEPT ![t] = [at |-> clock, prev |-> prev_at, dur |-> d]]
           /\ pc' = [pc EXCEPT ![t] = IF d > 0 THEN "at_sleep" ELSE "at_lock"]
    /\ UNCHANGED << op, cmd, rv, lock, tx, subscriptions, listeners, q, got, mark, nget, response >>
    /\ UNCHANGED << rx, devtx, nframes >>
    /\ UNCHANGED readervars
    /\ UNCHANGED << callvars, nodata, detectvars, busvars, guard, clock, prev_at >>

\* TypeABZ.AT: sleep(self.guard) returns, not before the time it was given
ATWake(t) ==
    /\ pc[t] = "at_sleep"
    /\ clock >= slept[t].at + slept[t].dur
    /\ pc' = [pc EXCEPT ![t] = "at_lock"]
    /\ UNCHANGED << op, cmd, rv, lock, tx, subscriptions, listeners, q, got, mark, nget, response >>
    /\ UNCHANGED << rx, devtx, nframes >>
    /\ UNCHANGED readervars
    /\ UNCHANGED << callvars, nodata, detectvars, busvars, clockvars, prev_at >>

\* time passes
Tick ==
    /\ clock < MaxTime
    /\ clock' = clock + 1
    /\ UNCHANGED << rx, devtx, nframes, tx, response, listeners, q, nget >>
    /\ UNCHANGED << pc, op, cmd, rv, lock, subscriptions, got, mark >>
    /\ UNCHANGED readervars
    /\ UNCHANGED << callvars, nodata, detectvars, busvars, guard, slept, prev_at >>

\* TypeABZ.AT: with self.lock
ATLock(t) ==
    /\ pc[t] = "at_lock"
    /\ CanAcquire(t)
    /\ lock' = Acquired(t)
    /\ pc' = [pc EXCEPT ![t] = "at_write"]
    /\ UNCHANGED << op, cmd, rv, tx, subscriptions, listeners, q, got, mark, nget, response >>
    /\ UNCHANGED << rx, devtx, nframes >>
    /\ UNCHANGED readervars
    /\ UNCHANGED << callvars, nodata, detectvars, busvars, clockvars, prev_at >>

\* an AT that writes the command and its carriage return in two writes
ATWriteTwice(t) ==
    /\ pc[t] = "at_write"
    /\ encodable(cmd[t])
    /\ tx' = tx \o << B_AT \o cmd[t], <<CR>> >>
    /\ mark' = [mark EXCEPT ![t] = Len(emitlog)]
    /\ rpcw' = [rpcw EXCEPT ![t] = IF rpc = "ended" THEN "ended" ELSE "running"]
    /\ body' = [body EXCEPT ![t] = <<>>]
    /\ pc' = [pc EXCEPT ![t] = IF at_wait(op[t]) THEN "at_read" ELSE "at_ret"]
    /\ UNCHANGED << op, cmd, rv, lock, subscriptions, listeners, q, got, nget, response >>
    /\ UNCHANGED << rx, devtx, nframes >>
    /\ UNCHANGED readervars
    /\ UNCHANGED << inline, nodata, detectvars, busvars, clockvars, prev_at >>

\* TypeABZ.AT: self.write(prefix + cmd.encode(encoding)); TypeABZ.write puts
\* cmd + b'\r' on the port in one write
ATWrite(t) ==
    /\ pc[t] = "at_write"
    /\ encodable(cmd[t])
    /\ tx' = Append(tx, B_AT \o cmd[t] \o <<CR>>)
    /\ mark' = [mark EXCEPT ![t] = Len(emitlog)]
    /\ rpcw' = [rpcw EXCEPT ![t] = IF rpc = "ended" THEN "ended" ELSE "running"]
    /\ body' = [body EXCEPT ![t] = <<>>]
    /\ pc' = [pc EXCEPT ![t] = IF at_wait(op[t]) THEN "at_read" ELSE "at_ret"]
    /\ UNCHANGED << op, cmd, rv, lock, subscriptions, listeners, q, got, nget, response >>
    /\ UNCHANGED << rx, devtx, nframes >>
    /\ UNCHANGED readervars
    /\ UNCHANGED << inline, nodata, detectvars, busvars, clockvars, prev_at >>

\* TypeABZ.AT: cmd.encode(encoding) raises UnicodeEncodeError before
\* self.write is called; the exception leaves the with block of the lock
ATEncodeError(t) ==
    /\ pc[t] = "at_write"
    /\ ~encodable(cmd[t])
    /\ rv' = [rv EXCEPT ![t] = Outcome("UnicodeEncodeError", "", 0)]
    /\ pc' = [pc EXCEPT ![t] = AfterAT(t, FALSE)]
    /\ prev_at' = at_exit(FALSE, prev_at, clock)
    /\ lock' = Released
    /\ UNCHANGED << op, cmd, tx, subscriptions, listeners, q, got, mark, nget, response >>
    /\ UNCHANGED << rx, devtx, nframes >>
    /\ UNCHANGED readervars
    /\ UNCHANGED << callvars, nodata, detectvars, busvars, clockvars >>

\* TypeABZ.AT from read_inline_response to the end: the queue get returns a
\* Line, the Line is mapped, a returned value is decoded, the lock is left
ATRead(t) ==
    /\ pc[t] = "at_read"
    /\ inline[t]
    /\ response # <<>>
    /\ LET r == inline_result(Head(response))
           ok == r.kind \in {"ok", "value"}
       IN  /\ rv' = [rv EXCEPT ![t] = Outcome(r.kind, decode(r.val), r.errno)]
           /\ pc' = [pc EXCEPT ![t] = AfterAT(t, ok)]
           /\ prev_at' = at_exit(ok, prev_at, clock)
    /\ got' = [got EXCEPT ![t] = Head(response)]
    /\ response' = Tail(response)
    /\ nget' = nget + 1
    /\ lock' = Released
    /\ UNCHANGED << op, cmd, tx, subscriptions, listeners, q, mark >>
    /\ UNCHANGED << rx, devtx, nframes >>
    /\ UNCHANGED readervars
    /\ UNCHANGED << callvars, nodata, detectvars, busvars, clockvars >>

\* TypeABZ.AT with inline=False: one turn of the loop of
\* read_multiline_response: the queue get returns a Line; the Line joins the
\* body, or the call ends as in ATRead
ATReadLine(t) ==
    /\ pc[t] = "at_read"
    /\ ~inline[t]
    /\ response # <<>>
    /\ LET r == multiline_result(body[t], Head(response))
           ok == r.kind = "value"
       IN  IF r.kind = "more"
           THEN /\ body' = [body EXCEPT ![t] = Append(@, Head(response))]
                /\ UNCHANGED << rv, pc, lock, prev_at >>
           ELSE /\ rv' = [rv EXCEPT ![t] = Outcome(r.kind, decode(r.val), r.errno)]
                /\ pc' = [pc EXCEPT ![t] = AfterAT(t, ok)]
                /\ prev_at' = at_exit(ok, prev_at, clock)
                /\ lock' = Released
                /\ UNCHANGED body
    /\ got' = [got EXCEPT ![t] = Head(response)]
    /\ response' = Tail(response)
    /\ nget' = nget + 1
    /\ UNCHANGED << op, cmd, tx, subscriptions, listeners, q, mark >>
    /\ UNCHANGED << rx, devtx, nframes >>
    /\ UNCHANGED readervars
    /\ UNCHANGED << inline, rpcw, nodata, detectvars, busvars, clockvars >>

\* TypeABZ.AT when the queue get of read_inline_response or of
\* read_multiline_response raises Empty: the queue stayed empty for the whole
\* timeout; TimeoutError leaves the lock
ATTimeout(t) ==
    /\ pc[t] = "at_read"
    /\ response = <<>>
    /\ rv' = [rv EXCEPT ![t] = Outcome("TimeoutError", "", 0)]
    /\ pc' = [pc EXCEPT ![t] = AfterAT(t, FALSE)]
    /\ prev_at' = at_exit(FALSE, prev_at, clock)
    /\ lock' = Released
    /\ UNCHANGED << op, cmd, tx, subscriptions, listeners, q, got, mark, nget, response >>
    /\ UNCHANGED << rx, devtx, nframes >>
    /\ UNCHANGED readervars
    /\ UNCHANGED << callvars, nodata, detectvars, busvars, clockvars >>

\* TypeABZ.AT with wait=False: no reply is read; self.prev_at is set and the
\* lock of AT is left.  The caller, tx, goes on to write its payload.
ATReturn(t) ==
    /\ pc[t] = "at_ret"
    /\ prev_at' = at_exit(TRUE, prev_at, clock)
    /\ lock' = Released
    /\ pc' = [pc EXCEPT ![t] = "tx_data"]
    /\ UNCHANGED << op, cmd, rv, tx, subscriptions, listeners, q, got, mark, nget, response >>
    /\ UNCHANGED << rx, devtx, nframes >>
    /\ UNCHANGED readervars
    /\ UNCHANGED << callvars, nodata, detectvars, busvars, clockvars >>

\* MurataModem.tx: self.modem.port.write(data); self.modem.flush()
TxData(t) ==
    /\ pc[t] = "tx_data"
    /\ tx' = Append(tx, TX_DATA)
    /\ pc' = [pc EXCEPT ![t] = "tx_read"]
    /\ UNCHANGED << op, cmd, rv, lock, subscriptions, listeners, q, got, mark, nget, response >>
    /\ UNCHANGED << rx, devtx, nframes >>
    /\ UNCHANGED readervars
    /\ UNCHANGED << callvars, nodata, detectvars, busvars, clockvars, prev_at >>

\* MurataModem.tx: self.modem.read_inline_response(), called with no timeout:
\* the queue get returns when a Line is there; unconfirmed tx returns None
TxRead(t) ==
    /\ pc[t] = "tx_read"
    /\ response # <<>>
    /\ LET r == inline_result(Head(response))
       IN  rv' = [rv EXCEPT ![t] =
                    IF r.kind \in {"ok", "value"} THEN Outcome("ok", "", 0)
                    ELSE Outcome(r.kind, decode(r.val), r.errno)]
    /\ got' = [got EXCEPT ![t] = Head(response)]
    /\ response' = Tail(response)
    /\ nget' = nget + 1
    /\ pc' = [pc EXCEPT ![t] = "j_close"]
    /\ UNCHANGED << op, cmd, lock, tx, subscriptions, listeners, q, mark >>
    /\ UNCHANGED << rx, devtx, nframes >>
    /\ UNCHANGED readervars
    /\ UNCHANGED << callvars, nodata, detectvars, busvars, clockvars, prev_at >>

\* TypeABZ.flush_atci, called by MurataModem.reset with no lock held:
\* port.write(b'\r\n'); port.flush()
FlushWrite(t) ==
    /\ pc[t] = "f_write"
    /\ tx' = Append(tx, <<CR, LF>>)
    /\ pc' = [pc EXCEPT ![t] = "f_read"]
    /\ UNCHANGED << op, cmd, rv, lock, subscriptions, listeners, q, got, mark, nget, response >>
    /\ UNCHANGED << rx, devtx, nframes >>
    /\ UNCHANGED readervars
    /\ UNCHANGED << callvars, nodata, detectvars, busvars, clockvars, prev_at >>

\* flush_atci: select reports the port readable; port.read() takes one byte,
\* which is thrown away
FlushRead(t) ==
    /\ pc[t] = "f_read"
    /\ rx # <<>>
    /\ rx' = Tail(rx)
    /\ UNCHANGED << devtx, nframes, response, listeners, q, nget >>
    /\ UNCHANGED appvars
    /\ UNCHANGED readervars
    /\ UNCHANGED << callvars, nodata, detectvars, busvars, clockvars, prev_at >>

\* flush_atci: select times out with nothing to read; reset goes on to reboot
FlushIdle(t) ==
    /\ pc[t] = "f_read"
    /\ rx = <<>>
    /\ pc' = [pc EXCEPT ![t] = "j_lock"]
    /\ UNCHANGED << op, cmd, rv, lock, tx, subscriptions, listeners, q, got, mark, nget, response >>
    /\ UNCHANGED << rx, devtx, nframes >>
    /\ UNCHANGED readervars
    /\ UNCHANGED << callvars, nodata, detectvars, busvars, clockvars, prev_at >>

\* wait_for over a bus that keeps its publications: the new listener is
\* called for those of its name made before it was registered
WaitOnceReplay(t) ==
    /\ pc[t] = "wf_once"
    /\ q' = [q EXCEPT ![t] = [k \in 1..Len(SelectSeq(emitlog, LAMBDA x : x.e.name = wait_event(op[t]))) |->
                                 SelectSeq(emitlog, LAMBDA x : x.e.name = wait_event(op[t]))[k].e]]
    /\ listeners' = [listeners EXCEPT ![t] = Append(@, [event |-> wait_event(op[t]), owner |-> t,
                                                 once |-> TRUE, id |-> nreg + 1])]
    /\ nreg' = nreg + 1
    /\ pc' = [pc EXCEPT ![t] = "wf_get"]
    /\ UNCHANGED << op, cmd, rv, lock, tx, subscriptions, got, mark, nget, response >>
    /\ UNCHANGED << rx, devtx, nframes >>
    /\ UNCHANGED readervars
    /\ UNCHANGED << callvars, nodata, detectvars, calls, wire, it, sdk_response, clockvars, prev_at >>

\* EventSubscription.wait_for(event): q = Queue(); self.once(event, cb)
WaitOnce(t) ==
    /\ pc[t] = "wf_once"
    /\ q' = [q EXCEPT ![t] = <<>>]
    /\ listeners' = [listeners EXCEPT ![t] = Append(@, [event |-> wait_event(op[t]), owner |-> t,
                                                 once |-> TRUE, id |-> nreg + 1])]
    /\ nreg' = nreg + 1
    /\ pc' = [pc EXCEPT ![t] = "wf_get"]
    /\ UNCHANGED << op, cmd, rv, lock, tx, subscriptions, got, mark, nget, response >>
    /\ UNCHANGED << rx, devtx, nframes >>
    /\ UNCHANGED readervars
    /\ UNCHANGED << callvars, nodata, detectvars, calls, wire, it, sdk_response, clockvars, prev_at >>

\* wait_for: q.get returns the arguments of a publication; join maps them,
\* reboot returns
WaitGet(t) ==
    /\ pc[t] = "wf_get"
    /\ q[t] # <<>>
    /\ LET status == Head(q[t]).ints
       IN  rv' = [rv EXCEPT ![t] =
                    IF op[t] # "join" THEN Outcome("ok", "", 0)
                    ELSE IF status = <<1, 1>> THEN Outcome("ok", "", 0)
                    ELSE IF status = <<1, 0>> THEN Outcome("JoinFailed", "", 0)
                    ELSE Outcome("Exception", "", 0)]
    /\ q' = [q EXCEPT ![t] = Tail(@)]
    /\ pc' = [pc EXCEPT ![t] = "j_close"]
    /\ UNCHANGED << op, cmd, lock, tx, subscriptions, listeners, got, mark, nget, response >>
    /\ UNCHANGED << rx, devtx, nframes >>
    /\ UNCHANGED readervars
    /\ UNCHANGED << callvars, nodata, detectvars, busvars, clockvars, prev_at >>

\* wait_for: q.get raises Empty: q stayed empty for the whole timeout; with
\* timeout=None the get never raises
WaitTimeout(t) ==
    /\ pc[t] = "wf_get"
    /\ wait_bounded(op[t])
    /\ q[t] = <<>>
    /\ pc' = [pc EXCEPT ![t] = "wf_off"]
    /\ UNCHANGED << op, cmd, rv, lock, tx, subscriptions, listeners, q, got, mark, nget, response >>
    /\ UNCHANGED << rx, devtx, nframes >>
    /\ UNCHANGED readervars
    /\ UNCHANGED << callvars, nodata, detectvars, busvars, clockvars, prev_at >>

\* wait_for raising TimeoutError with its listener left registered
WaitOffKeep(t) ==
    /\ pc[t] = "wf_off"
    /\ UNCHANGED listeners
    /\ rv' = [rv EXCEPT ![t] = Outcome("TimeoutError", "", 0)]
    /\ pc' = [pc EXCEPT ![t] = "j_close"]
    /\ UNCHANGED << op, cmd, lock, tx, subscriptions, q, got, mark, nget, response >>
    /\ UNCHANGED << rx, devtx, nframes >>
    /\ UNCHANGED readervars
    /\ UNCHANGED << callvars, nodata, detectvars, busvars, clockvars, prev_at >>

\* wait_for: except Empty: self.off(event, cb); raise TimeoutError
WaitOff(t) ==
    /\ pc[t] = "wf_off"
    /\ listeners' = [listeners EXCEPT ![t] =
                       SelectSeq(@, LAMBDA l : ~(l.event = wait_event(op[t]) /\ l.owner = t))]
    /\ rv' = [rv EXCEPT ![t] = Outcome("TimeoutError", "", 0)]
    /\ pc' = [pc EXCEPT ![t] = "j_close"]
    /\ UNCHANGED << op, cmd, lock, tx, subscriptions, q, got, mark, nget, response >>
    /\ UNCHANGED << rx, devtx, nframes >>
    /\ UNCHANGED readervars
    /\ UNCHANGED << callvars, nodata, detectvars, busvars, clockvars, prev_at >>

\* MurataModem.join, reboot or tx leaves its with blocks, by return or by
\* exception: the finally of TypeABZ.events (subscriptions.remove(sub);
\* sub.off_all()), then the lock.  When reboot has returned, reset goes on to
\* self.modem.AT().
JoinClose(t) ==
    /\ pc[t] = "j_close"
    /\ subscriptions' = subscriptions \ {t}
    /\ listeners' = [listeners EXCEPT ![t] = <<>>]
    /\ lock' = Released
    /\ IF op[t] = "reset" /\ rv[t].kind = "ok"
       THEN /\ op' = [op EXCEPT ![t] = "AT"]
            /\ cmd' = [cmd EXCEPT ![t] = <<>>]
            /\ pc' = [pc EXCEPT ![t] = ATEntry]
       ELSE /\ pc' = [pc EXCEPT ![t] = "done"]
            /\ UNCHANGED << op, cmd >>
    /\ UNCHANGED << rv, tx, q, got, mark, nget, response >>
    /\ UNCHANGED << rx, devtx, nframes >>
    /\ UNCHANGED readervars
    /\ UNCHANGED << callvars, nodata, detectvars, busvars, clockvars, prev_at >>

\* ---------------------------------------------------------------- the reader

\* a reader with no try around self.receive: the exception ends the thread
reader_uncaught(raised) == IF raised THEN "ended" ELSE "read_line"

\* a reader that handles the Line it has read a second time
reader_again(raised) == IF rpc = "receive" /\ Len(nreadlog) < Len(rxlog) THEN "receive" ELSE "read_line"

\* TypeABZ.reader after self.receive(data): an exception of receive is
\* printed and the loop goes on
reader_after_receive(raised) == "read_line"

\* a reader that calls read_line again after its exception
reader_retry(failed) == "read_line"

\* TypeABZ.reader after self.read_line(): 'except: break' ends the loop, and
\* with it the thread
reader_after_read_line(failed) == IF failed THEN "ended" ELSE "receive"

\* TypeABZ.reader: data = self.read_line().  The bytes the port holds are read
\* one at a time; a Line is returned at its line feed, otherwise the read
\* blocks with the accumulator kept
ReaderReadLine ==
    /\ rpc = "read_line"
    /\ rx # <<>>
    /\ LET r == read_line(acc, rx)
       IN  /\ rx' = r.rest
           /\ IF r.done
              THEN /\ data' = r.line
                   /\ acc' = <<>>
                   /\ rxlog' = Append(rxlog, r.line)
                   /\ rpc' = reader_after_read_line(FALSE)
              ELSE /\ acc' = r.line
                   /\ UNCHANGED << data, rxlog, rpc >>
    /\ UNCHANGED << nreadlog, emitlog, response, listeners, q, nget, devtx, nframes >>
    /\ UNCHANGED appvars
    /\ UNCHANGED << callvars, nodata, detectvars, busvars, clockvars, prev_at >>

\* TypeABZ.reader: self.receive(data), an exception of it printed and ignored
ReaderReceive ==
    /\ rpc = "receive"
    /\ LET e == receive(data, rx)
           d == emit_all(e.emits, listeners, q)
       IN  /\ rx' = From(rx, e.nread)
           /\ response' = response \o e.put
           /\ listeners' = d.listeners
           /\ q' = d.q
           /\ nreadlog' = Append(nreadlog, e.nread)
           /\ emitlog' = emitlog \o [i \in 1..Len(e.emits) |-> [src |-> Len(rxlog), e |-> e.emits[i]]]
           /\ rpc' = reader_after_receive(e.raised)
    /\ UNCHANGED << acc, data, rxlog, nget, devtx, nframes >>
    /\ UNCHANGED appvars
    /\ UNCHANGED << callvars, nodata, detectvars, busvars, clockvars, prev_at >>

\* TypeABZ.reader of a TowerSDK: self.receive(data) is TowerSDK.receive
TowerReceive ==
    /\ rpc = "receive"
    /\ LET r == tower_receive(data, rx)
           e == r.base
           d == emit_all(e.emits, listeners, q)
       IN  /\ rx' = From(rx, e.nread)
           /\ response' = response \o e.put
           /\ sdk_response' = sdk_response \o r.sdk
           /\ listeners' = d.listeners
           /\ q' = d.q
           /\ nreadlog' = Append(nreadlog, e.nread)
           /\ emitlog' = emitlog \o [i \in 1..Len(e.emits) |-> [src |-> Len(rxlog), e |-> e.emits[i]]]
           /\ rpc' = reader_after_receive(e.raised)
    /\ UNCHANGED << acc, data, rxlog, nget, devtx, nframes >>
    /\ UNCHANGED appvars
    /\ UNCHANGED << callvars, nodata, detectvars, nreg, calls, wire, it, clockvars, prev_at >>

\* LoRaModule.reader (src/tools/lora.py): the Line is handled by the body of
\* the loop; an exception in it is printed and the loop goes on
LegacyReceive ==
    /\ rpc = "receive"
    /\ LET e == reader_legacy(data, rx)
           d == emit_all(e.emits, listeners, q)
       IN  /\ rx' = From(rx, e.nread)
           /\ response' = response \o e.put
           /\ listeners' = d.listeners
           /\ q' = d.q
           /\ nreadlog' = Append(nreadlog, e.nread)
           /\ emitlog' = emitlog \o [i \in 1..Len(e.emits) |-> [src |-> Len(rxlog), e |-> e.emits[i]]]
           /\ rpc' = "read_line"
    /\ UNCHANGED << acc, data, rxlog, nget, devtx, nframes >>
    /\ UNCHANGED appvars
    /\ UNCHANGED << callvars, nodata, detectvars, busvars, clockvars, prev_at >>

\* TypeABZ.reader when self.read_line() raises: select reported the port
\* readable and port.read() returned zero bytes (the link is gone);
\* read_line raises Exception('No data') and its local line is lost
ReaderNoData ==
    /\ rpc = "read_line"
    /\ rx = <<>>
    /\ nodata' = TRUE
    /\ acc' = <<>>
    /\ rpc' = reader_after_read_line(TRUE)
    /\ UNCHANGED << data, rxlog, nreadlog, emitlog >>
    /\ UNCHANGED << rx, devtx, nframes, response, listeners, q, nget >>
    /\ UNCHANGED appvars
    /\ UNCHANGED << callvars, detectvars, busvars, clockvars, prev_at >>

\* ---------------------------------------------------------------- the device

EOL == <<CR, LF, CR, LF>>

\* the Line '+EVENT=a,b' for the byte strings a and b
L_EVENT(a, b) == B_EVENT \o <<"=">> \o a \o <<",">> \o b

\* the device's output joins the bytes under way: now reaches the port at
\* once when nothing is under way, later stays under way
Sent(now, later) ==
    IF devtx = <<>> THEN /\ rx' = rx \o now
                         /\ devtx' = later
    ELSE /\ devtx' = devtx \o now \o later
         /\ UNCHANGED rx

\* the bytes of the Lines ls on the link
RECURSIVE Wire(_)
Wire(ls) == IF ls = <<>> THEN <<>> ELSE Head(ls) \o EOL \o Wire(Tail(ls))

\* the Lines the device may send in answer to a command with a multi-line
\* reply; the first reaches the port at once, the others later
MultiReplies ==
    LET x == <<"x">>
        y == <<"y", "=", "1">>
        e5 == B_ERREQ \o <<"-", "5">>
        e1 == B_ERREQ \o <<"-", "1">>
    IN  { <<B_OK>>, <<x, B_OK>>, <<x, y, B_OK>>, <<x, e5, B_OK>>, <<x, B_OK, y>>,
          <<x, y>>, <<B_OKEQ \o <<"5">>, B_OK>>, <<e5>>, <<e5, B_OK>>, <<e1>>,
          <<B_ERREQ, B_OK>> }

\* the modem firmware's answer to a command: its reply Line and the
\* notification that follows it
Answers(w) ==
    IF w \in {<<CR, LF>>, B_AT \o CMD_UTX \o <<CR>>}
    THEN { [reply |-> <<>>, then |-> <<>>] }
    ELSE IF w \in {TX_DATA, B_AT \o <<CR>>}
    THEN { [reply |-> B_OK \o EOL, then |-> <<>>] }
    ELSE IF w = B_AT \o CMD_REBOOT \o <<CR>>
    THEN { [reply |-> B_OK \o EOL, then |-> L_EVENT(<<"0">>, <<"0">>) \o EOL] }
    ELSE IF w = B_AT \o CMD_JOIN \o <<CR>>
    THEN { [reply |-> B_OK \o EOL, then |-> L_EVENT(<<"1">>, <<"1">>) \o EOL],
           [reply |-> B_OK \o EOL, then |-> L_EVENT(<<"1">>, <<"0">>) \o EOL] }
    ELSE IF w = B_AT \o CMD_DR \o <<CR>>
    THEN { [reply |-> B_OKEQ \o <<"5">> \o EOL, then |-> <<>>] }
    ELSE IF w = B_AT \o CMD_DBG \o <<CR>>
    THEN { [reply |-> Head(ls) \o EOL, then |-> Wire(Tail(ls))] : ls \in MultiReplies }
    ELSE { [reply |-> B_OKEQ \o <<"8">> \o EOL, then |-> <<>>] }

\* the device handles the oldest command written to it
DeviceReply ==
    /\ tx # <<>>
    /\ \E a \in Answers(Head(tx)) : Sent(a.reply, a.then)
    /\ tx' = Tail(tx)
    /\ UNCHANGED << nframes, response, listeners, q, nget >>
    /\ UNCHANGED << pc, op, cmd, rv, lock, subscriptions, got, mark >>
    /\ UNCHANGED readervars
    /\ UNCHANGED << callvars, nodata, detectvars, busvars, clockvars, prev_at >>

\* bytes under way reach the port
Deliver ==
    /\ devtx # <<>>
    /\ rx' = rx \o devtx
    /\ devtx' = <<>>
    /\ UNCHANGED << nframes, response, listeners, q, nget >>
    /\ UNCHANGED appvars
    /\ UNCHANGED readervars
    /\ UNCHANGED << callvars, nodata, detectvars, busvars, clockvars, prev_at >>

\* the Lines the device sends on its own (notifications, and response-shaped
\* Lines that answer no command)
PlainLines ==
    { B_OK,
      B_OKEQ \o <<"5">>,
      B_ERREQ \o <<"-", "5">>,
      B_ERREQ \o <<"5">>,
      B_ERREQ \o <<"-", "1">>,
      B_ERREQ \o <<"-", "5", "0">>,
      <<"B", "U", "S", "Y">> }

NotificationLines ==
    { L_EVENT(<<"1">>, <<"0">>),
      L_EVENT(<<"-", "1">>, <<"1", "2">>),
      B_EVENT,
      B_EVENT \o <<"=", "1">>,
      B_ANS \o <<"=", "2", ",", "3", ",", "4">>,
      B_ACK,
      B_NOACK }

\* the receive notification '+RECV=1,2' and the bytes that follow its Line:
\* the blank line and a 2-byte payload, which holds a line feed
L_RECV == B_RECV \o <<"=", "1", ",", "2">>
RecvPayload == <<"a", LF>>
RecvBody == <<CR, LF>> \o RecvPayload

\* a frame: the bytes that reach the port together (now) and the bytes that
\* follow them later
Frames ==
    { [now |-> l \o EOL, later |-> <<>>] : l \in PlainLines \cup NotificationLines }
    \cup
    { [now |-> L_RECV \o <<CR, LF>> \o SubSeq(RecvBody, 1, k),
       later |-> SubSeq(RecvBody, k + 1, Len(RecvBody))] : k \in 0..Len(RecvBody) }

\* frames of whole Lines, among them the Lines receive fails on: an event
\* with one parameter or with three, and an event whose parameter is no
\* integer
LinkFrames ==
    { [now |-> l \o EOL, later |-> <<>>] :
        l \in { B_OK,
                B_OKEQ \o <<"5">>,
                B_ERREQ \o <<"-", "5">>,
                B_EVENT,
                B_EVENT \o <<"=", "1">>,
                L_EVENT(<<"1">>, <<"2">>) \o <<",", "3">>,
                L_EVENT(<<"x">>, <<"1">>),
                L_EVENT(<<"1">>, <<"0">>),
                L_RECV \o <<",", "3">> } }

\* the device sends a frame on its own
DeviceSend(f) ==
    /\ nframes < MaxFrames
    /\ nframes' = nframes + 1
    /\ Sent(f.now, f.later)
    /\ UNCHANGED << response, listeners, q, nget >>
    /\ UNCHANGED appvars
    /\ UNCHANGED readervars
    /\ UNCHANGED << callvars, nodata, detectvars, busvars, clockvars, prev_at >>

\* ------------------------------------------------------- baud rate detection

\* the defaults of detect_baud_rate: the candidate speeds and the expected
\* reply
speeds == <<9600, 19200, 38400, 4800>>
detect_response == <<"+", "O", "K", CR>>

\* what one port.read() may return: nothing, or one byte
ReadResults == {<<>>} \cup { <<c>> : c \in {"+", "O", "K", CR, "X"} }

\* the loop over the expected bytes with a wrong or missing byte only
\* reported: the reading goes on
on_read_soft(pos, d) ==
    IF pos = Len(detect_response) THEN "return" ELSE "next"

\* the loop over the expected bytes ended at the first byte that matches
on_read_first(pos, d) ==
    IF Len(d) = 0 \/ d[1] # detect_response[pos] THEN "break" ELSE "return"

\* one turn of 'for c in response' with d = port.read(), c the byte at pos:
\* break, go on with the next byte, or (the else of the for) return speed
on_read(pos, d) ==
    IF Len(d) = 0 \/ d[1] # detect_response[pos] THEN "break"
    ELSE IF pos = Len(detect_response) THEN "return"
    ELSE "next"

\* detect_baud_rate is called: it raises when the port is open
DetectCall ==
    /\ dpc = "idle"
    /\ IF port # "None"
       THEN /\ detected' = [kind |-> "Exception", val |-> 0]
            /\ dpc' = "done"
            /\ UNCHANGED speed
       ELSE /\ speed' = 1
            /\ dpc' = "open"
            /\ UNCHANGED detected
    /\ UNCHANGED << port, dpos, probes >>
    /\ UNCHANGED << rx, devtx, nframes, tx, response, listeners, q, nget >>
    /\ UNCHANGED << pc, op, cmd, rv, lock, subscriptions, got, mark >>
    /\ UNCHANGED readervars
    /\ UNCHANGED << callvars, nodata, clockvars, busvars, prev_at >>

\* 'for speed in speeds': the list is over and None is returned, or the next
\* candidate is opened, flushed and sent AT
DetectOpen ==
    /\ dpc = "open"
    /\ IF speed > Len(speeds)
       THEN /\ detected' = [kind |-> "None", val |-> 0]
            /\ dpc' = "done"
            /\ UNCHANGED << probes, dpos >>
       ELSE /\ probes' = Append(probes, [speed |-> speeds[speed], reads |-> <<>>])
            /\ dpos' = 1
            /\ dpc' = "read"
            /\ UNCHANGED detected
    /\ UNCHANGED << port, speed >>
    /\ UNCHANGED << rx, devtx, nframes, tx, response, listeners, q, nget >>
    /\ UNCHANGED << pc, op, cmd, rv, lock, subscriptions, got, mark >>
    /\ UNCHANGED readervars
    /\ UNCHANGED << callvars, nodata, clockvars, busvars, prev_at >>

\* 'for c in response': select with the timeout, then d = port.read()
DetectRead(d) ==
    /\ dpc = "read"
    /\ probes' = [probes EXCEPT ![Len(probes)].reads = Append(@, d)]
    /\ LET r == on_read(dpos, d)
       IN  IF r = "break"
           THEN /\ speed' = speed + 1
                /\ dpc' = "open"
                /\ UNCHANGED << dpos, detected >>
           ELSE IF r = "next"
           THEN /\ dpos' = dpos + 1
                /\ UNCHANGED << speed, dpc, detected >>
           ELSE /\ detected' = [kind |-> "speed", val |-> speeds[speed]]
                /\ dpc' = "done"
                /\ UNCHANGED << speed, dpos >>
    /\ UNCHANGED port
    /\ UNCHANGED << rx, devtx, nframes, tx, response, listeners, q, nget >>
    /\ UNCHANGED << pc, op, cmd, rv, lock, subscriptions, got, mark >>
    /\ UNCHANGED readervars
    /\ UNCHANGED << callvars, nodata, clockvars, busvars, prev_at >>

\* ------------------------------------------------------------ specification

ThreadStep(t) ==
    \/ \E prog \in Programs : Call(t, prog)
    \/ JoinLock(t)
    \/ JoinScope(t)
    \/ ATLock(t)
    \/ ATWrite(t)
    \/ ATRead(t)
    \/ ATTimeout(t)
    \/ WaitOnce(t)
    \/ WaitGet(t)
    \/ WaitTimeout(t)
    \/ WaitOff(t)
    \/ JoinClose(t)

Next ==
    \/ \E t \in Threads : ThreadStep(t)
    \/ ReaderReadLine
    \/ ReaderReceive
    \/ DeviceReply
    \/ Deliver

\* the engine with a device that answers each command, in order
Spec == Init /\ [][Next]_vars

\* the engine with one application thread, which calls AT, and a device that
\* sends frames on its own and answers no command
NextDemux ==
    \/ \E prog \in {p \in Programs : p.cmd = CMD_DR} : Call(1, prog)
    \/ ATLock(1)
    \/ ATWrite(1)
    \/ ATRead(1)
    \/ ATTimeout(1)
    \/ ReaderReadLine
    \/ ReaderReceive
    \/ \E f \in Frames : DeviceSend(f)
    \/ Deliver

SpecDemux == Init /\ [][NextDemux]_vars

\* the engine with one application thread, which calls AT, a device that
\* sends whole Lines on its own, and a link that may fail
NextLink ==
    \/ \E prog \in {p \in Programs : p.cmd = CMD_DR} : Call(1, prog)
    \/ ATLock(1)
    \/ ATWrite(1)
    \/ ATRead(1)
    \/ ATTimeout(1)
    \/ ReaderReadLine
    \/ ReaderReceive
    \/ ReaderNoData
    \/ \E f \in LinkFrames : DeviceSend(f)

SpecLink == Init /\ [][NextLink]_vars

\* the engine with one application thread, which calls AT('$DBG',
\* inline=False), and a device that answers it with several Lines
NextMulti ==
    \/ \E prog \in ProgramsMulti : Call(1, prog)
    \/ ATLock(1)
    \/ ATWrite(1)
    \/ ATReadLine(1)
    \/ ATTimeout(1)
    \/ ReaderReadLine
    \/ ReaderReceive
    \/ DeviceReply
    \/ Deliver

SpecMulti == Init /\ [][NextMulti]_vars

\* a step of thread t inside reset, tx, join or AT
OpsStep(t) ==
    \/ FlushWrite(t)
    \/ FlushRead(t)
    \/ FlushIdle(t)
    \/ JoinLock(t)
    \/ JoinScope(t)
    \/ ATLock(t)
    \/ ATWrite(t)
    \/ ATEncodeError(t)
    \/ ATRead(t)
    \/ ATTimeout(t)
    \/ ATReturn(t)
    \/ TxData(t)
    \/ TxRead(t)
    \/ WaitOnce(t)
    \/ WaitGet(t)
    \/ WaitTimeout(t)
    \/ WaitOff(t)
    \/ JoinClose(t)

\* the engine with one thread that calls reset() or tx(b'x') and one that
\* calls AT('+DR?'), AT('\u00e9'), join() or reset(), the reader, and a
\* device that answers each command
NextOps ==
    \/ \E prog \in ProgramsOps : Call(1, prog)
    \/ \E prog \in {p \in Programs \cup ProgramsOps \cup ProgramsBad :
                        p.cmd \notin {CMD_BAND, CMD_UTX}} : Call(2, prog)
    \/ \E t \in {1, 2} : OpsStep(t)
    \/ ReaderReadLine
    \/ ReaderReceive
    \/ DeviceReply
    \/ Deliver

SpecOps == Init /\ [][NextOps]_vars

\* TowerSDK.SDK_AT: with self.lock
SdkLock(t) ==
    /\ pc[t] = "sdk_lock"
    /\ CanAcquire(t)
    /\ lock' = Acquired(t)
    /\ pc' = [pc EXCEPT ![t] = "sdk_drain"]
    /\ UNCHANGED << op, cmd, rv, tx, subscriptions, listeners, q, got, mark, nget, response >>
    /\ UNCHANGED << rx, devtx, nframes >>
    /\ UNCHANGED readervars
    /\ UNCHANGED << callvars, nodata, detectvars, busvars, clockvars, prev_at >>

\* SDK_AT: one turn of 'while not self.sdk_response.empty()': a Line is taken
\* and dropped, or the loop ends
SdkDrain(t) ==
    /\ pc[t] = "sdk_drain"
    /\ IF sdk_response = <<>>
       THEN /\ pc' = [pc EXCEPT ![t] = "sdk_write"]
            /\ UNCHANGED sdk_response
       ELSE /\ sdk_response' = Tail(sdk_response)
            /\ UNCHANGED pc
    /\ UNCHANGED << op, cmd, rv, lock, tx, subscriptions, listeners, q, got, mark, nget, response >>
    /\ UNCHANGED << rx, devtx, nframes >>
    /\ UNCHANGED readervars
    /\ UNCHANGED << callvars, nodata, detectvars, nreg, calls, wire, it, clockvars, prev_at >>

\* SDK_AT: self.write(b'AT' + cmd.encode('ascii'))
SdkWrite(t) ==
    /\ pc[t] = "sdk_write"
    /\ tx' = Append(tx, B_AT \o cmd[t] \o <<CR>>)
    /\ pc' = [pc EXCEPT ![t] = "sdk_read"]
    /\ UNCHANGED << op, cmd, rv, lock, subscriptions, listeners, q, got, mark, nget, response >>
    /\ UNCHANGED << rx, devtx, nframes >>
    /\ UNCHANGED readervars
    /\ UNCHANGED << callvars, nodata, detectvars, busvars, clockvars, prev_at >>

\* read_sdk_response(): one turn of its loop.  The get has no timeout; 'ERROR'
\* raises, 'OK' returns, any other Line is dropped and the loop goes on.  The
\* with block of SDK_AT ends with the call.
SdkRead(t) ==
    /\ pc[t] = "sdk_read"
    /\ sdk_response # <<>>
    /\ sdk_response' = Tail(sdk_response)
    /\ LET line == Head(sdk_response)
       IN  IF line = SDK_ERROR
           THEN /\ rv' = [rv EXCEPT ![t] = Outcome("Exception", "", 0)]
                /\ pc' = [pc EXCEPT ![t] = "done"]
                /\ lock' = Released
           ELSE IF line = SDK_OK
           THEN /\ rv' = [rv EXCEPT ![t] = Outcome("ok", "", 0)]
                /\ pc' = [pc EXCEPT ![t] = "done"]
                /\ lock' = Released
           ELSE UNCHANGED << rv, pc, lock >>
    /\ UNCHANGED << op, cmd, tx, subscriptions, listeners, q, got, mark, nget, response >>
    /\ UNCHANGED << rx, devtx, nframes >>
    /\ UNCHANGED readervars
    /\ UNCHANGED << callvars, nodata, detectvars, nreg, calls, wire, it, clockvars, prev_at >>

\* the Tower SDK firmware's answers to a command of its own: 'OK', 'ERROR',
\* or a Line of output and then 'OK'
TowerAnswers ==
    { SDK_OK \o EOL, SDK_ERROR \o EOL, <<"1">> \o EOL \o SDK_OK \o EOL }

\* the Tower SDK firmware handles the oldest command written to it
TowerReply ==
    /\ tx # <<>>
    /\ \E a \in TowerAnswers : Sent(a, <<>>)
    /\ tx' = Tail(tx)
    /\ UNCHANGED << nframes, response, listeners, q, nget >>
    /\ UNCHANGED << pc, op, cmd, rv, lock, subscriptions, got, mark >>
    /\ UNCHANGED readervars
    /\ UNCHANGED << callvars, nodata, detectvars, busvars, clockvars, prev_at >>

\* what the Tower SDK firmware sends on its own: output of the modem behind
\* it, with the prefix, and a Line of its own
TowerFrames ==
    { [now |-> l \o EOL, later |-> <<>>] :
        l \in { SDK_PREFIX \o B_OKEQ \o <<"5">>,
                SDK_PREFIX \o L_EVENT(<<"1">>, <<"0">>),
                SDK_OK } }

\* a TowerSDK with threads that call SDK_AT('$LORA>ATCI=1'), the reader, and
\* a firmware that answers each command and also sends Lines on its own
NextSDK ==
    \/ \E t \in {1, 2} :
          \/ \E prog \in ProgramsSDK : Call(t, prog)
          \/ SdkLock(t)
          \/ SdkDrain(t)
          \/ SdkWrite(t)
          \/ SdkRead(t)
    \/ ReaderReadLine
    \/ TowerReceive
    \/ TowerReply
    \/ \E f \in TowerFrames : DeviceSend(f)

SpecSDK == Init /\ [][NextSDK]_vars

\* the engine in the fault-free case: threads that call AT('+DR?') or
\* AT('+BAND?'), the reader, and a device that answers each command with one
\* response Line and sends nothing else; no queue get times out
NextCorr ==
    \/ \E t \in Threads :
          \/ \E prog \in {p \in Programs : p.op = "AT"} : Call(t, prog)
          \/ ATLock(t)
          \/ ATWrite(t)
          \/ ATRead(t)
    \/ ReaderReadLine
    \/ ReaderReceive
    \/ DeviceReply

SpecCorr == Init /\ [][NextCorr]_vars

\* response Lines the device sends on its own: an error reply, and a Line
\* read_inline_response rejects
LockFrames ==
    { [now |-> l \o EOL, later |-> <<>>] : l \in { B_ERREQ \o <<"-", "5">>, B_OKEQ } }

\* a step of thread t inside tx, join or AT
LockStep(t) ==
    \/ JoinLock(t)
    \/ JoinScope(t)
    \/ ATLock(t)
    \/ ATWrite(t)
    \/ ATEncodeError(t)
    \/ ATRead(t)
    \/ ATTimeout(t)
    \/ ATReturn(t)
    \/ TxData(t)
    \/ TxRead(t)
    \/ WaitOnce(t)
    \/ WaitGet(t)
    \/ WaitTimeout(t)
    \/ WaitOff(t)
    \/ JoinClose(t)

\* the engine with one thread that calls tx(b'x') or join() and one that
\* calls AT('+DR?') or AT('\u00e9'), the reader, and a device that answers
\* each command and also sends response Lines on its own
NextLock ==
    \/ \E prog \in {p \in Programs \cup ProgramsOps : p.cmd \in {CMD_UTX, CMD_JOIN}} : Call(1, prog)
    \/ \E prog \in {p \in Programs \cup ProgramsBad : p.cmd \in {CMD_DR, CMD_BAD}} : Call(2, prog)
    \/ \E t \in {1, 2} : LockStep(t)
    \/ ReaderReadLine
    \/ ReaderReceive
    \/ DeviceReply
    \/ \E f \in LockFrames : DeviceSend(f)
    \/ Deliver

SpecLock == Init /\ [][NextLock]_vars

\* notifications the device sends on its own
WaitFrames ==
    { [now |-> l \o EOL, later |-> <<>>] :
        l \in { L_EVENT(<<"1">>, <<"0">>), L_EVENT(<<"1">>, <<"1">>), L_EVENT(<<"0">>, <<"0">>) } }

\* the engine with one thread that calls join(), the reader, and a device
\* that answers the command and also sends notifications on its own
NextWait ==
    \/ \E prog \in {p \in Programs : p.op = "join"} : Call(1, prog)
    \/ JoinLock(1)
    \/ JoinScope(1)
    \/ ATLock(1)
    \/ ATWrite(1)
    \/ ATRead(1)
    \/ ATTimeout(1)
    \/ WaitOnce(1)
    \/ WaitGet(1)
    \/ WaitTimeout(1)
    \/ WaitOff(1)
    \/ JoinClose(1)
    \/ ReaderReadLine
    \/ ReaderReceive
    \/ DeviceReply
    \/ \E f \in WaitFrames : DeviceSend(f)
    \/ Deliver

SpecWait == Init /\ [][NextWait]_vars

\* the older engine, LoRaModule of src/tools/lora.py: its reader, and a device
\* that sends frames on its own
NextLegacy ==
    \/ ReaderReadLine
    \/ LegacyReceive
    \/ \E f \in Frames : DeviceSend(f)
    \/ Deliver

SpecLegacy == Init /\ [][NextLegacy]_vars

\* the bytes a device may send
Bytes == {CR, LF, "a", "+"}

\* one byte reaches the port
DeviceByte(c) ==
    /\ Len(wire) < MaxBytes
    /\ wire' = Append(wire, c)
    /\ rx' = Append(rx, c)
    /\ UNCHANGED << devtx, nframes, response, listeners, q, nget >>
    /\ UNCHANGED appvars
    /\ UNCHANGED readervars
    /\ UNCHANGED << callvars, nodata, detectvars, nreg, calls, it, sdk_response, clockvars, prev_at >>

\* the reader of the open engine on a link that carries any bytes
NextFrame ==
    \/ \E c \in Bytes : DeviceByte(c)
    \/ ReaderReadLine
    \/ ReaderReceive

SpecFrame == Init /\ [][NextFrame]_vars

\* with self.modem.events as events (TypeABZ.events up to its yield): a new
\* scope with no listener joins self.subscriptions
ScopeOpen(t) ==
    /\ pc[t] = "idle"
    /\ subscriptions' = subscriptions \cup {t}
    /\ listeners' = [listeners EXCEPT ![t] = <<>>]
    /\ pc' = [pc EXCEPT ![t] = "scope"]
    /\ UNCHANGED << op, cmd, rv, lock, tx, q, got, mark, nget, response >>
    /\ UNCHANGED << rx, devtx, nframes >>
    /\ UNCHANGED readervars
    /\ UNCHANGED << callvars, nodata, detectvars, busvars, clockvars, prev_at >>

\* inside the scope: events.on(name, cb) or events.once(name, cb), cb a
\* callback that puts its arguments on a queue of the caller
ScopeOn(t, name, once) ==
    /\ pc[t] = "scope"
    /\ nreg < MaxRegs
    /\ listeners' = [listeners EXCEPT ![t] =
                       Append(@, [event |-> name, owner |-> t, once |-> once, id |-> nreg + 1])]
    /\ nreg' = nreg + 1
    /\ UNCHANGED << q, nget, response >>
    /\ UNCHANGED appvars
    /\ UNCHANGED << rx, devtx, nframes >>
    /\ UNCHANGED readervars
    /\ UNCHANGED << callvars, nodata, detectvars, calls, wire, it, sdk_response, clockvars, prev_at >>

\* a scope left with no finally: an exception in the body leaves the scope
\* and its listeners in place
ScopeCloseLeak(t, raised) ==
    /\ pc[t] = "scope"
    /\ subscriptions' = IF raised THEN subscriptions ELSE subscriptions \ {t}
    /\ listeners' = [listeners EXCEPT ![t] = IF raised THEN @ ELSE <<>>]
    /\ rv' = [rv EXCEPT ![t] = Outcome(IF raised THEN "Exception" ELSE "ok", "", 0)]
    /\ pc' = [pc EXCEPT ![t] = "done"]
    /\ UNCHANGED << op, cmd, lock, tx, q, got, mark, nget, response >>
    /\ UNCHANGED << rx, devtx, nframes >>
    /\ UNCHANGED readervars
    /\ UNCHANGED << callvars, nodata, detectvars, busvars, clockvars, prev_at >>

\* the scope is left, by the end of its body or by an exception in it: the
\* finally of TypeABZ.events (subscriptions.remove(sub); sub.off_all())
ScopeClose(t, raised) ==
    /\ pc[t] = "scope"
    /\ subscriptions' = subscriptions \ {t}
    /\ listeners' = [listeners EXCEPT ![t] = <<>>]
    /\ rv' = [rv EXCEPT ![t] = Outcome(IF raised THEN "Exception" ELSE "ok", "", 0)]
    /\ pc' = [pc EXCEPT ![t] = "done"]
    /\ UNCHANGED << op, cmd, lock, tx, q, got, mark, nget, response >>
    /\ UNCHANGED << rx, devtx, nframes >>
    /\ UNCHANGED readervars
    /\ UNCHANGED << callvars, nodata, detectvars, busvars, clockvars, prev_at >>

\* the names and arguments published in the event bus specification
BusEvents == { Em("event", <<1, 1>>, "", <<>>), Em("answer", <<2, 3, 4>>, "", <<>>) }

\* TypeABZ.emit(name, *args), called by receive in the reader thread: the
\* for loop visits the scopes of the set self.subscriptions in some order
Publish(e) ==
    /\ Len(calls) < MaxCalls
    /\ \E order \in Orders(subscriptions) :
          LET r == emit(order, listeners, q, e, <<>>)
          IN  /\ listeners' = r.listeners
              /\ q' = r.q
              /\ calls' = calls \o r.called
    /\ UNCHANGED << nget, response, nreg, wire, it, sdk_response >>
    /\ UNCHANGED appvars
    /\ UNCHANGED << rx, devtx, nframes >>
    /\ UNCHANGED readervars
    /\ UNCHANGED << callvars, nodata, detectvars, clockvars, prev_at >>

\* TypeABZ.emit(name, *args) in the reader thread, step by step, beside
\* threads that enter and leave TypeABZ.events: the for statement takes an
\* iterator of the set self.subscriptions.  rem is the order in which the
\* iterator will reach the scopes of the set, used the size of the set, which
\* the iterator keeps.
EmitBegin(e) ==
    /\ ~it.on
    /\ Len(calls) < MaxCalls
    /\ \E order \in Orders(subscriptions) :
          it' = [on |-> TRUE, rem |-> order, used |-> Cardinality(subscriptions),
                 start |-> subscriptions, seen |-> {}, e |-> e, failed |-> FALSE]
    /\ UNCHANGED << nget, response, listeners, q, nreg, calls, wire, sdk_response >>
    /\ UNCHANGED appvars
    /\ UNCHANGED << rx, devtx, nframes >>
    /\ UNCHANGED readervars
    /\ UNCHANGED << callvars, nodata, detectvars, clockvars, prev_at >>

\* sub.emit(...) for the scope s the iterator has reached
EmitVisit(s, rest) ==
    LET r == sub_emit(listeners[s], <<>>, q, it.e, <<>>)
    IN  /\ listeners' = [listeners EXCEPT ![s] = r.listeners]
        /\ q' = r.q
        /\ calls' = calls \o r.called
        /\ it' = [it EXCEPT !.rem = rest, !.seen = @ \cup {s}]

\* one turn of the for loop of TypeABZ.emit: the iterator raises
\* RuntimeError (Set changed size during iteration) when the set has another
\* size than at the start, and emit ends there; otherwise it ends the loop,
\* or yields the next scope still in the set, or a scope added since the
\* start that lies in a slot it has not passed
EmitNext ==
    /\ it.on
    /\ IF Cardinality(subscriptions) # it.used
       THEN /\ it' = [it EXCEPT !.on = FALSE, !.failed = TRUE]
            /\ UNCHANGED << listeners, q, calls >>
       ELSE \/ /\ it.rem = <<>>
               /\ it' = [it EXCEPT !.on = FALSE]
               /\ UNCHANGED << listeners, q, calls >>
            \/ /\ it.rem # <<>>
               /\ Head(it.rem) \in subscriptions
               /\ EmitVisit(Head(it.rem), Tail(it.rem))
            \/ /\ it.rem # <<>>
               /\ Head(it.rem) \notin subscriptions
               /\ it' = [it EXCEPT !.rem = Tail(it.rem)]
               /\ UNCHANGED << listeners, q, calls >>
            \/ \E s \in subscriptions \ (it.start \cup it.seen) :
                  EmitVisit(s, it.rem)
    /\ UNCHANGED << nget, response, nreg, wire, sdk_response >>
    /\ UNCHANGED appvars
    /\ UNCHANGED << rx, devtx, nframes >>
    /\ UNCHANGED readervars
    /\ UNCHANGED << callvars, nodata, detectvars, clockvars, prev_at >>

\* the event bus with emit taken step by step: two threads that open a
\* scope, register listeners and leave the scope while the reader publishes
NextRace ==
    \/ \E t \in {1, 2} :
          \/ ScopeOpen(t)
          \/ \E name \in {"event", "answer"}, once \in BOOLEAN : ScopeOn(t, name, once)
          \/ \E raised \in BOOLEAN : ScopeClose(t, raised)
    \/ \E e \in BusEvents : EmitBegin(e)
    \/ EmitNext

SpecRace == Init /\ [][NextRace]_vars

\* the event bus of the open engine: two threads that open a scope, register
\* listeners under 'event' and 'answer' with on or once, and leave the scope,
\* beside the publications of the reader
NextBus ==
    \/ \E t \in {1, 2} :
          \/ ScopeOpen(t)
          \/ \E name \in {"event", "answer"}, once \in BOOLEAN : ScopeOn(t, name, once)
          \/ \E raised \in BOOLEAN : ScopeClose(t, raised)
    \/ \E e \in BusEvents : Publish(e)

SpecBus == Init /\ [][NextBus]_vars

\* TypeABZ(pathname), open() called or not, then detect_baud_rate()
InitDetect ==
    /\ Constructed
    /\ port \in {"None", "open"}
    /\ guard = None

NextDetect ==
    \/ DetectCall
    \/ DetectOpen
    \/ \E d \in ReadResults : DetectRead(d)

SpecDetect == InitDetect /\ [][NextDetect]_vars

\* TypeABZ(pathname, guard=Guard) followed by open()
InitGuard ==
    /\ Constructed
    /\ port = "open"
    /\ guard = Guard

\* the engine with a guard interval: threads that call AT('+DR?'), the
\* reader, a device that answers each command, and the clock
NextGuard ==
    \/ \E t \in Threads :
          \/ \E prog \in {p \in Programs : p.cmd = CMD_DR} : Call(t, prog)
          \/ ATGuard(t)
          \/ ATWake(t)
          \/ ATLock(t)
          \/ ATWrite(t)
          \/ ATRead(t)
          \/ ATTimeout(t)
    \/ ReaderReadLine
    \/ ReaderReceive
    \/ DeviceReply
    \/ Tick

SpecGuard == InitGuard /\ [][NextGuard]_vars

\* ------------------------------------------------------------------ claims

\* t has written its command and its reply read is not over
Outstanding(t) == pc[t] = "at_read"

\* t is in the write-then-read cycle of AT
InCycle(t) == pc[t] \in {"at_write", "at_read"}

\* C1: concurrent AT calls never interleave their writes: a thread is in the
\* write-then-read cycle of AT only while it holds the lock, no two threads
\* are in it together, hence at most one command is outstanding (written, its
\* reply neither obtained nor timed out) and no thread writes meanwhile.
C1_OneOutstanding ==
    \A t \in Threads :
        InCycle(t) =>
            /\ lock.count > 0
            /\ lock.owner = t
            /\ \A u \in Threads \ {t} : ~InCycle(u)

\* one AT call has its command outstanding while another AT call waits for
\* the lock
C1_Witness ==
    \E t, u \in Threads :
        /\ Outstanding(t)
        /\ op[t] = "AT"
        /\ pc[u] = "at_lock"
        /\ op[u] = "AT"

\* the reply Lines the device sends for the write w
ReplyLines(w) == { read_line(<<>>, a.reply).line : a \in Answers(w) }

\* C2: every Line an AT call takes from the response queue is a reply to the
\* command this same call wrote; a reply that arrives after its call timed
\* out is not the result of a later call.
C2_NoStaleReply ==
    \A t \in Threads :
        got[t] # <<>> => got[t] \in ReplyLines(B_AT \o cmd[t] \o <<CR>>)

\* C3: no lost wakeup in join: when the wait_for of join times out, no 'event'
\* was published since join wrote AT+JOIN inside its subscription scope.
C3_NoLostWakeup ==
    [][ \A t \in Threads :
          (pc[t] = "wf_get" /\ pc'[t] = "wf_off") =>
              \A i \in (mark[t] + 1)..Len(emitlog) : emitlog[i].e.name # "event" ]_vars

\* the Line starts with one of the notification prefixes
HasNotificationPrefix(l) ==
    \E p \in {B_EVENT, B_ANS, B_ACK, B_NOACK, B_RECV} : StartsWith(l, p)

\* the Lines receive has handled, in the order read_line returned them
Handled == SubSeq(rxlog, 1, Len(nreadlog))

\* the publications made for the i-th Line
EmitsOf(i) ==
    LET mine == SelectSeq(emitlog, LAMBDA x : x.src = i)
    IN  [k \in 1..Len(mine) |-> mine[k].e]

\* C4: the Lines with no notification prefix are put on the response queue
\* unchanged and in the order the reader produced them: the queue holds
\* exactly those Lines, less the ones already taken from its head; none is
\* dropped and no event is published for any of them.
C4_PlainLinesQueued ==
    LET plain == SelectSeq(Handled, LAMBDA l : ~HasNotificationPrefix(l))
    IN  /\ nget <= Len(plain)
        /\ response = SubSeq(plain, nget + 1, Len(plain))
        /\ \A i \in 1..Len(emitlog) : HasNotificationPrefix(rxlog[emitlog[i].src])

\* two different plain Lines, the second neither +OK nor +ERR, are on the
\* response queue in arrival order
C4_Witness ==
    /\ Len(response) = 2
    /\ response[1] = B_OK
    /\ response[2] = <<"B", "U", "S", "Y">>

\* the decimal digit of n
DigitOf(n) == CHOOSE c \in DOMAIN DigitVal : DigitVal[c] = n

\* the integer n in decimal
RECURSIVE Decimal(_)
Decimal(n) ==
    IF n < 0 THEN <<"-">> \o Decimal(0 - n)
    ELSE IF n < 10 THEN <<DigitOf(n)>>
    ELSE Decimal(n \div 10) \o <<DigitOf(n % 10)>>

\* the Line '+EVENT=a,b' for the integers a and b
EventLines == [a \in -1..12 |-> [b \in -1..12 |-> L_EVENT(Decimal(a), Decimal(b))]]

ModemErrorKinds == {"ModemError", "UnknownCommand", "AccessDenied"}

\* C6: for every Line '+RECV=p,n' receive pulls exactly n + 2 bytes from the
\* port and publishes one 'message' with (p, the last n of them).
C6_ReceivePullsAll ==
    \A i \in 1..Len(nreadlog) :
        rxlog[i] = L_RECV =>
            /\ nreadlog[i] = Len(RecvPayload) + 2
            /\ EmitsOf(i) = << Em("message", <<1>>, "", RecvPayload) >>

\* C7: a short read after '+RECV=p,n' is fatal: no 'message' is published for
\* it and no later Line is read (the bytes that arrive late are not Lines).
C7_ShortReadIsFatal ==
    \A i \in 1..Len(nreadlog) :
        (rxlog[i] = L_RECV /\ nreadlog[i] < Len(RecvPayload) + 2) =>
            /\ EmitsOf(i) = <<>>
            /\ Len(rxlog) = i

\* the Line is '+ERR=c' for an integer c
IsErrLine(l) == StartsWith(l, B_ERREQ) /\ ParseInt(From(l, 5)).ok

ErrCode(l) == ParseInt(From(l, 5)).val

\* C8: for every integer c, an AT call whose reply Line is '+ERR=c' raises a
\* ModemError whose errno is c.
C8_ErrRaisesModemError ==
    \A t \in Threads :
        (pc[t] = "done" /\ IsErrLine(got[t])) =>
            /\ rv[t].kind \in ModemErrorKinds
            /\ rv[t].errno = ErrCode(got[t])

\* C9: '+ERR=-1' raises UnknownCommand carrying -1, '+ERR=-50' raises
\* AccessDenied carrying -50, and the error mapping never fails with an
\* untyped error of its own.
C9_NamedErrorKinds ==
    \A t \in Threads :
        pc[t] = "done" =>
            /\ rv[t].kind # "TypeError"
            /\ got[t] = B_ERREQ \o <<"-", "1">> =>
                  (rv[t].kind = "UnknownCommand" /\ rv[t].errno = -1)
            /\ got[t] = B_ERREQ \o <<"-", "5", "0">> =>
                  (rv[t].kind = "AccessDenied" /\ rv[t].errno = -50)

\* C10: read_inline_response takes one Line and maps it: '+OK' is success
\* with no value, '+OK=v' success with v, '+ERR=c' the device error, any
\* other Line a protocol violation.
C10_InlineMapping ==
    \A t \in Threads :
        (pc[t] = "done" /\ rv[t].kind # "TimeoutError") =>
            /\ nget = 1
            /\ IF got[t] = B_OK THEN rv[t].kind = "ok"
               ELSE IF StartsWith(got[t], B_OKEQ) /\ Len(got[t]) > Len(B_OKEQ)
               THEN rv[t].kind = "value" /\ rv[t].val = decode(From(got[t], Len(B_OKEQ)))
               ELSE IF IsErrLine(got[t])
               THEN rv[t].kind \in ModemErrorKinds /\ rv[t].errno = ErrCode(got[t])
               ELSE rv[t].kind = "Exception"

\* the Lines put on the response queue so far, in order
Queued == SelectSeq(Handled, LAMBDA l : ~HasNotificationPrefix(l))

\* the Lines taken from the response queue so far, in order
Taken == SubSeq(Queued, 1, nget)

\* C11: read_multiline_response takes Lines one at a time up to the first
\* bare '+OK' and returns the Lines before it, in order (joined by line
\* feeds; empty when '+OK' is first); a first Line '+ERR=c' aborts the read
\* with the device error of c and no other Line '+ERR=c' does: after a body
\* Line it joins the body; no Line after the terminal '+OK' is taken.
C11_MultilineRead ==
    \A t \in Threads :
        (pc[t] = "done" /\ ~inline[t]) =>
            IF rv[t].kind = "value"
            THEN /\ Taken = Append(body[t], B_OK)
                 /\ \A i \in 1..Len(body[t]) : body[t][i] # B_OK
                 /\ body[t] # <<>> => ~StartsWith(body[t][1], B_ERREQ)
                 /\ rv[t].val = decode(Join(body[t]))
            ELSE IF rv[t].kind = "TimeoutError"
            THEN /\ Taken = body[t]
                 /\ \A i \in 1..Len(body[t]) : body[t][i] # B_OK
                 /\ body[t] # <<>> => ~StartsWith(body[t][1], B_ERREQ)
            ELSE /\ body[t] = <<>>
                 /\ nget = 1
                 /\ StartsWith(Taken[1], B_ERREQ)
                 /\ IsErrLine(Taken[1]) =>
                       (rv[t].kind \in ModemErrorKinds /\ rv[t].errno = ErrCode(Taken[1]))

\* C12: once wait_for has returned or raised, the listener it registered is
\* registered no more, whether the publication came before the timeout, after
\* it or not at all.
C12_NoResidualListener ==
    \A t \in Threads :
        pc[t] = "j_close" => listeners[t] = <<>>

\* the wait_for of join timed out and the publication came between its
\* timeout and its self.off
C12_Witness ==
    \E t \in Threads :
        /\ pc[t] = "j_close"
        /\ rv[t].kind = "TimeoutError"
        /\ got[t] = B_OK
        /\ q[t] # <<>>

\* the reads of a candidate whose reply matched in full
FullMatch == [i \in 1..Len(detect_response) |-> <<detect_response[i]>>]

\* the candidate with these reads was aborted: its last read returned
\* nothing or a byte other than the expected one
Aborted(reads) ==
    /\ reads # <<>>
    /\ Len(reads) <= Len(detect_response)
    /\ reads[Len(reads)] # <<detect_response[Len(reads)]>>

\* C13: detect_baud_rate opens the candidates in list order and returns the
\* first speed whose reply matches the expected bytes in full: the returned
\* speed is the last one opened, its reads are the expected bytes, no earlier
\* candidate matched in full and no later one was opened.
C13_FirstMatchWins ==
    /\ Len(probes) <= Len(speeds)
    /\ \A k \in 1..Len(probes) : probes[k].speed = speeds[k]
    /\ \A k \in 1..(Len(probes) - 1) : probes[k].reads # FullMatch
    /\ detected.kind = "speed" =>
          /\ detected.val = speeds[Len(probes)]
          /\ probes[Len(probes)].reads = FullMatch
    /\ (probes # <<>> /\ probes[Len(probes)].reads = FullMatch) => detected.kind = "speed"

\* the second candidate matched after the first got a wrong last byte
C13_Witness ==
    /\ detected = [kind |-> "speed", val |-> 19200]
    /\ probes[1].reads = << <<"+">>, <<"O">>, <<"K">>, <<"X">> >>

Fails(l) == receive(l, <<>>).raised

\* C15: an exception of receive on one Line does not end the reader: the
\* reader is over only when a read of the port returned zero bytes, and
\* every Line read after a failed one is classified, a plain one going to
\* the response queue.
C15_ReaderSurvives ==
    /\ rpc = "ended" => nodata
    /\ ~nodata => Len(rxlog) - Len(nreadlog) = (IF rpc = "receive" THEN 1 ELSE 0)
    /\ response = SubSeq(Queued, nget + 1, Len(Queued))

\* '+EVENT=x,1' (not an integer) failed and the '+OK' that followed is on
\* the response queue
C15_Witness ==
    /\ Len(nreadlog) = 2
    /\ rxlog[1] = L_EVENT(<<"x">>, <<"1">>)
    /\ Fails(rxlog[1])
    /\ rxlog[2] = B_OK
    /\ response = <<B_OK>>

\* C16: once a read of the port has returned zero bytes the reader is over
\* for good: no Line is read or classified, no event is published and
\* nothing is put on the response queue, whatever arrives later.
C16_ReaderEndsForGood ==
    [][ nodata =>
          /\ rpc = "ended" /\ rpc' = "ended"
          /\ rxlog' = rxlog
          /\ nreadlog' = nreadlog
          /\ emitlog' = emitlog
          /\ Len(response') <= Len(response)
          /\ q' = q ]_vars

\* the reader is over and a whole Line has arrived since
C16_Witness ==
    /\ nodata
    /\ rpc = "ended"
    /\ rx = B_OK \o EOL
    /\ nframes = 1

\* C17: an AT call made after the reader has ended on a transport failure
\* does not end in TimeoutError, the outcome a slow device produces.
C17_TransportFailureTyped ==
    \A t \in Threads :
        (pc[t] = "done" /\ rpcw[t] = "ended") => rv[t].kind # "TimeoutError"

\* C18: an AT call writes once; it ends in TimeoutError exactly when its
\* queue get found the queue empty for the whole timeout, and a reply Line
\* '+ERR=c' always ends it in a ModemError.
C18_TimeoutVsDeviceError ==
    \A t \in Threads :
        (pc[t] = "done" /\ op[t] = "AT") =>
            /\ Len(tx) = 1
            /\ rv[t].kind = "TimeoutError" <=> got[t] = <<>>
            /\ IsErrLine(got[t]) => rv[t].kind \in ModemErrorKinds

\* t has made the guard test of its AT call
Throttled(t) == pc[t] \in {"at_sleep", "at_lock", "at_write", "at_read", "done"}

\* t has written the command of its AT call
Wrote(t) == pc[t] \in {"at_read", "done"}

\* C19: with a guard interval g, an AT call that starts at t with
\* t - prev_at < g blocks for g - (t - prev_at) before it writes, and a call
\* with t - prev_at >= g, or with no command completed before, does not
\* block.
C19_SleepsRemainder ==
    \A t \in Threads :
        Throttled(t) =>
            /\ slept[t].dur =
                  (IF slept[t].prev # None /\ slept[t].at - slept[t].prev < guard
                   THEN guard - (slept[t].at - slept[t].prev) ELSE 0)
            /\ Wrote(t) => clock >= slept[t].at + slept[t].dur

\* C19 as amended: the call blocks for the whole guard interval g, and a
\* call with t - prev_at >= g, or with no command completed before, does not
\* block.
C19_SleepsWholeGuard ==
    \A t \in Threads :
        Throttled(t) =>
            /\ slept[t].dur =
                  (IF slept[t].prev # None /\ slept[t].at - slept[t].prev < guard
                   THEN guard ELSE 0)
            /\ Wrote(t) => clock >= slept[t].at + slept[t].dur

\* a call that started one tick after the previous completion slept the
\* whole guard interval and then wrote
C19_Witness ==
    \E t \in Threads :
        /\ Wrote(t)
        /\ slept[t].prev # None
        /\ slept[t].at - slept[t].prev = 1
        /\ slept[t].dur = Guard

\* C20: every AT call that wrote its command sets prev_at to the time its
\* reply read ends, whether it returns or raises.
C20_PrevAtOnEveryExit ==
    [][ \A t \in Threads :
          (pc[t] = "at_read" /\ pc'[t] # "at_read") => prev_at' = clock ]_vars

\* C21: a Line that receive classifies as a response while no AT call is
\* between its write and the end of its reply read is not stored on the
\* response queue.
C21_StrayResponseRejected ==
    [][ (rpc = "receive" /\ rpc' # "receive" /\ ~ \E t \in Threads : Outstanding(t)) =>
          response' = response ]_vars

\* C22: with the reader running, every step that takes bytes from the link is
\* a step of the reader thread (read_line, or the extra read of receive), and
\* every step that writes to the link is a step of the thread that holds the
\* exclusion lock.
C22_LinkExclusive ==
    [][ /\ Len(rx') < Len(rx) => (ReaderReadLine \/ ReaderReceive)
        /\ Len(tx') > Len(tx) =>
              \E t \in Threads : /\ lock.count > 0
                                 /\ lock.owner = t
                                 /\ pc'[t] # pc[t] ]_vars

\* C23: a caller that blocks in the reply read of a command or in wait_for
\* always has a step it can take, its timeout when nothing arrives: no caller
\* operation depends on the device sending another Line.
C23_WaitsBounded ==
    \A t \in Threads :
        pc[t] \in {"at_read", "tx_read", "wf_get"} => ENABLED OpsStep(t)

\* where a thread is while it is inside TypeABZ.AT
ATSteps == {"at_guard", "at_sleep", "at_lock", "at_write", "at_read", "at_ret"}

\* C26: one AT call writes to the link once, the prefix, the command and one
\* carriage return in a single write, on each of its paths (reply, error
\* reply, timeout, wait=False); its reply read with inline=True takes at most
\* one Line from the response queue, and with wait=False the call leaves the
\* response queue as it is.
C26_OneWritePerAT ==
    [][ \A t \in Threads :
          (pc[t] \in ATSteps /\ pc'[t] # pc[t]) =>
              /\ pc[t] = "at_lock" => pc'[t] = "at_write"
              /\ pc[t] = "at_write" =>
                    /\ tx' = Append(tx, B_AT \o cmd[t] \o <<CR>>)
                    /\ pc'[t] = IF at_wait(op[t]) THEN "at_read" ELSE "at_ret"
              /\ pc[t] # "at_write" => tx' = tx
              /\ pc[t] \in {"at_read", "at_ret"} => pc'[t] \notin ATSteps
              /\ pc[t] = "at_read" /\ inline[t] =>
                    \/ response' = response
                    \/ response # <<>> /\ response' = Tail(response)
              /\ pc[t] # "at_read" => response' = response ]_vars

\* C26 as the code has it: one AT call whose command can be encoded writes to
\* the link once, the prefix, the command and one carriage return in a single
\* write, on each of its paths (reply, error reply, timeout, wait=False); a
\* call whose command cannot be encoded raises before it writes and writes
\* nothing.  The reply read with inline=True takes at most one Line from the
\* response queue, and with wait=False the call leaves the response queue as
\* it is.
C26_OneWriteWhenEncodable ==
    [][ \A t \in Threads :
          (pc[t] \in ATSteps /\ pc'[t] # pc[t]) =>
              /\ pc[t] = "at_lock" => pc'[t] = "at_write"
              /\ pc[t] = "at_write" /\ encodable(cmd[t]) =>
                    /\ tx' = Append(tx, B_AT \o cmd[t] \o <<CR>>)
                    /\ pc'[t] = IF at_wait(op[t]) THEN "at_read" ELSE "at_ret"
              /\ pc[t] = "at_write" /\ ~encodable(cmd[t]) =>
                    /\ tx' = tx
                    /\ pc'[t] \notin ATSteps
                    /\ rv'[t].kind = "UnicodeEncodeError"
              /\ pc[t] # "at_write" => tx' = tx
              /\ pc[t] \in {"at_read", "at_ret"} => pc'[t] \notin ATSteps
              /\ pc[t] = "at_read" /\ inline[t] =>
                    \/ response' = response
                    \/ response # <<>> /\ response' = Tail(response)
              /\ pc[t] # "at_read" => response' = response ]_vars

\* one thread's AT call has raised on a command that cannot be encoded, and
\* the other thread has written its command and returned from AT(wait=False)
C26_Witness ==
    \E t, u \in Threads :
        /\ op[t] = "AT" /\ pc[t] = "done" /\ rv[t].kind = "UnicodeEncodeError"
        /\ op[u] = "tx" /\ pc[u] = "tx_data"
        /\ tx = << B_AT \o CMD_UTX \o <<CR>> >>

\* the listeners registered under name in the open scopes
Registered(name) ==
    { l \in UNION { { listeners[t][i] : i \in 1..Len(listeners[t]) } : t \in subscriptions } :
        l.event = name }

\* the listeners called by the step
NewCalls == SubSeq(calls', Len(calls) + 1, Len(calls'))

\* C24: a publication calls every listener registered under its name in the
\* open scopes, each once, in the order in which the listeners were
\* registered.
C24_RegistrationOrder ==
    [][ Len(calls') > Len(calls) =>
          /\ { NewCalls[i] : i \in 1..Len(NewCalls) } = Registered(NewCalls[1].event)
          /\ Len(NewCalls) = Cardinality(Registered(NewCalls[1].event))
          /\ \A i, j \in 1..Len(NewCalls) : i < j => NewCalls[i].id < NewCalls[j].id ]_vars

\* C25: the set of scopes is the set of the scopes that are open, a scope
\* that is not open has no listener, and a publication calls only listeners
\* of scopes that are open when it is made: after a scope has closed, by the
\* end of its body or by an exception, none of its listeners is called.
C25_ScopeClose ==
    /\ [](/\ subscriptions = { t \in Threads : pc[t] = "scope" }
          /\ \A t \in Threads : t \notin subscriptions => listeners[t] = <<>>)
    /\ [][ \A i \in 1..Len(NewCalls) :
             /\ NewCalls[i].owner \in subscriptions
             /\ NewCalls[i] \in Registered(NewCalls[i].event) ]_vars

\* a scope that held two listeners under different names has closed by an
\* exception, and a later publication has called the listener of the scope
\* that is still open
C25_Witness ==
    \E t, u \in Threads :
        /\ pc[t] = "done" /\ rv[t].kind = "Exception"
        /\ pc[u] = "scope"
        /\ nreg = 3
        /\ calls # <<>>
        /\ calls[Len(calls)].owner = u
        /\ calls[Len(calls)].id = 3

\* C27: receive handles the Lines one at a time, in the order read_line
\* returned them and each once: a Line is handled before the next is read,
\* the publications are those of the first Line, then those of the second,
\* and so on (the publications of two Lines never mix), and the Lines put on
\* the response queue are there in that order.
C27_LineAtATime ==
    /\ Len(nreadlog) = IF rpc = "receive" THEN Len(rxlog) - 1 ELSE Len(rxlog)
    /\ \A i \in 1..(Len(emitlog) - 1) : emitlog[i].src <= emitlog[i + 1].src
    /\ \A i \in 1..Len(nreadlog) :
          IF StartsWith(rxlog[i], B_RECV)
          THEN Len(EmitsOf(i)) <= 1
          ELSE EmitsOf(i) = receive(rxlog[i], <<>>).emits
    /\ \A i \in 1..Len(emitlog) : emitlog[i].src \in 1..Len(nreadlog)
    /\ Taken \o response = Queued

\* an event Line and then another event Line were handled: three
\* publications of the first, then three of the second
C27_Witness ==
    /\ Len(emitlog) = 6
    /\ \A k \in 1..3 : emitlog[k].src = 1 /\ emitlog[k + 3].src = 2
    /\ rxlog[1] # rxlog[2]

\* the number of comma-separated parameters of the event Line l: none when
\* nothing follows the prefix and its separator
ParamCount(l) ==
    IF Len(l) <= 7 THEN 0
    ELSE 1 + Cardinality({ i \in 8..Len(l) : l[i] = "," })

\* C29: receive of an event Line with one parameter, or with three or more,
\* raises, publishes under none of the event names and puts nothing on the
\* response queue; receive of an event Line with no parameter publishes
\* 'event' with no argument and nothing else.
C29_EventParameterCount ==
    [][ (rpc = "receive" /\ rpc' # "receive" /\ StartsWith(data, B_EVENT)) =>
          /\ ParamCount(data) \notin {0, 2} =>
                /\ Fails(data)
                /\ emitlog' = emitlog
                /\ response' = response
          /\ ParamCount(data) = 0 =>
                /\ ~Fails(data)
                /\ emitlog' = Append(emitlog, [src |-> Len(rxlog), e |-> Em("event", <<>>, "", <<>>)])
                /\ response' = response ]_vars

\* receive has handled '+EVENT=1,2,3' and '+EVENT'
C29_Witness ==
    \E i, j \in 1..Len(nreadlog) :
        /\ rxlog[i] = L_EVENT(<<"1">>, <<"2">>) \o <<",", "3">>
        /\ rxlog[j] = B_EVENT

\* the class of the Line l, the prefixes tried in the order event, answer,
\* ack, noack, receive; a Line with none of them is a response
ClassOf(l) ==
    IF StartsWith(l, B_EVENT) THEN "event"
    ELSE IF StartsWith(l, B_ANS) THEN "answer"
    ELSE IF StartsWith(l, B_ACK) THEN "ack"
    ELSE IF StartsWith(l, B_NOACK) THEN "noack"
    ELSE IF StartsWith(l, B_RECV) THEN "receive"
    ELSE "response"

\* the Line '+ANS=2,3,4'
L_ANS == B_ANS \o <<"=", "2", ",", "3", ",", "4">>

\* C30: every handled Line got the action of its one class and of no other:
\* an event Line publishes under event names only, an answer Line publishes
\* 'answer' once ('+ANS=2,3,4' with the integers 2, 3, 4), '+ACK' publishes
\* 'ack' with True, '+NOACK' publishes 'ack' with False, a receive Line
\* publishes at most one 'message', and none of these is put on the response
\* queue; a response Line is put on the response queue and publishes nothing.
C30_OneClassOneAction ==
    /\ \A i \in 1..Len(nreadlog) :
          LET l == rxlog[i]
              em == EmitsOf(i)
              c == ClassOf(l)
          IN  /\ c = "event" => Len(em) \in {0, 1, 3} /\ (em # <<>> => em[1].name = "event")
              /\ c = "answer" => em = <<>> \/ (Len(em) = 1 /\ em[1].name = "answer")
              /\ l = L_ANS => em = << Em("answer", <<2, 3, 4>>, "", <<>>) >>
              /\ c = "ack" => em = << Em("ack", <<>>, "True", <<>>) >>
              /\ c = "noack" => em = << Em("ack", <<>>, "False", <<>>) >>
              /\ c = "receive" => em = <<>> \/ (Len(em) = 1 /\ em[1].name = "message")
              /\ c = "response" => em = <<>>
    /\ Taken \o response = SelectSeq(Handled, LAMBDA l : ClassOf(l) = "response")

\* receive has handled '+ANS=2,3,4' and '+NOACK'
C30_Witness ==
    \E i, j \in 1..Len(nreadlog) :
        /\ rxlog[i] = L_ANS
        /\ rxlog[j] = B_NOACK

\* the bytes the reader has taken from the link, carriage returns left out
Consumed == SelectSeq(SubSeq(wire, 1, Len(wire) - Len(rx)), LAMBDA c : c # CR)

\* the positions of the line feeds of s, in order
LineFeeds(s) == SelectSeq([i \in 1..Len(s) |-> i], LAMBDA i : s[i] = LF)

\* the piece of s that ends before position p and starts after the line feed
\* before it
PieceBefore(s, p) ==
    LET before == { j \in 1..(p - 1) : s[j] = LF }
        start == IF before = {} THEN 1
                 ELSE 1 + CHOOSE j \in before : \A k \in before : k <= j
    IN  SubSeq(s, start, p - 1)

\* the non-empty pieces of s that a line feed ends, in order
Pieces(s) ==
    SelectSeq([k \in 1..Len(LineFeeds(s)) |-> PieceBefore(s, LineFeeds(s)[k])],
              LAMBDA x : x # <<>>)

C31_LegacyPlainLinesQueued ==
    Taken \o response = Queued

\* C32: when emit ends, it has not failed and it has delivered the
\* publication to every scope that was open from its start to its end,
\* whatever scopes other threads opened or closed in between.
C32_EmitSurvivesScopeChange ==
    [][ (it.on /\ ~it'.on) =>
          /\ ~it'.failed
          /\ (it.start \cap subscriptions') \subseteq it'.seen ]_vars

\* C33: with a guard interval configured, a command is written to the link
\* no sooner than the guard interval after the completion time recorded by
\* the command before it, whichever threads the two commands come from.
C33_GuardSpacing ==
    [][ \A t \in Threads :
          (pc[t] = "at_write" /\ pc'[t] # "at_write" /\ guard # None /\ prev_at # None) =>
              clock - prev_at >= guard ]_vars

\* thread t is inside the with self.modem.lock block of join, reboot or tx,
\* at or after the write of its command
InCompound(t) ==
    /\ op[t] \in {"join", "reset", "tx"}
    /\ pc[t] \in {"at_read", "at_ret", "tx_data", "tx_read", "wf_once", "wf_get", "wf_off"}

\* C34: while a thread is in join, reboot or tx between the write of its
\* command and the end of its wait, every write to the link is a write of
\* that thread: no other thread writes a command, and nothing gets between
\* the command of tx and its payload.
C34_CompoundHoldsLink ==
    [][ \A t \in Threads :
          (InCompound(t) /\ Len(tx') > Len(tx)) => pc'[t] # pc[t] ]_vars

\* the holds of the lock that thread t's place in its call implies: one for
\* the with block of join, reboot or tx, one more for the with block of AT
Holds(t) ==
    (IF op[t] \in {"join", "reset", "tx"} /\
        pc[t] \in {"j_scope", "at_guard", "at_sleep", "at_lock", "at_write", "at_read",
                   "at_ret", "tx_data", "tx_read", "wf_once", "wf_get", "wf_off", "j_close"}
     THEN 1 ELSE 0)
    + (IF pc[t] \in {"at_write", "at_read", "at_ret"} THEN 1 ELSE 0)

\* C35: the lock is reentrant and balanced.  The hold count is at each moment
\* the number of with blocks its owner is inside, so a call that ends, by
\* return, timeout, error reply, rejected reply or encoding error, leaves the
\* count it found; when every caller is outside its call the lock is free; a
\* thread at the lock of AT can take it when the lock is free or its own.
C35_LockBalanced ==
    /\ \A t \in Threads : Holds(t) > 0 => lock = [owner |-> t, count |-> Holds(t)]
    /\ (\A t \in Threads : Holds(t) = 0) => lock = [owner |-> 0, count |-> 0]
    /\ \A t \in Threads :
          (pc[t] = "at_lock" /\ lock.owner \in {0, t}) => ENABLED ATLock(t)

\* one thread has left join after a failed AT call inside it and the other
\* has left AT on the encoding error, and the lock is free
C35_Witness ==
    /\ op[1] = "join" /\ pc[1] = "done" /\ rv[1].kind \notin {"ok", "value"}
    /\ op[2] = "AT" /\ pc[2] = "done" /\ rv[2].kind = "UnicodeEncodeError"
    /\ lock.count = 0

\* the publications made by the step
NewEmits == SubSeq(emitlog', Len(emitlog) + 1, Len(emitlog'))

\* thread t has a listener registered under name in an open scope
Listens(t, name) ==
    /\ t \in subscriptions
    /\ \E i \in 1..Len(listeners[t]) : listeners[t][i].event = name

\* C36: events are not buffered.  The queue of a wait_for is empty when its
\* listener is registered, whatever was published before; it receives
\* arguments only in a step that publishes, only those of that step's
\* publications, and only when its listener was registered under the name
\* before the step; a publication under a name nobody listens to changes no
\* listener and no queue.
C36_EventsNotBuffered ==
    [][ /\ \A t \in Threads :
              /\ Len(listeners'[t]) > Len(listeners[t]) => q'[t] = <<>>
              /\ Len(q'[t]) > Len(q[t]) =>
                    /\ NewEmits # <<>>
                    /\ \E k \in 1..Len(NewEmits) :
                          /\ Listens(t, NewEmits[k].e.name)
                          /\ q'[t] = Append(q[t], NewEmits[k].e)
        /\ (NewEmits # <<>> /\ \A k \in 1..Len(NewEmits), t \in Threads : ~Listens(t, NewEmits[k].e.name)) =>
              (q' = q /\ listeners' = listeners) ]_vars

\* the notification of join was published before wait_for registered its
\* listener: the listener is registered, its queue is empty
C36_Witness ==
    \E t \in Threads :
        /\ op[t] = "join" /\ pc[t] = "wf_get" /\ q[t] = <<>>
        /\ Listens(t, "event")
        /\ \E i \in (mark[t] + 1)..Len(emitlog) : emitlog[i].e.name = "event"

\* the publications under name in the sequence es
Named(es, name) == SelectSeq(es, LAMBDA x : x.e.name = name)

\* C37: the listener of wait_for is one-shot.  Its queue never holds more
\* than one item; the item is put by the first publication of the name made
\* while the listener is registered, in the step that removes the listener;
\* later publications of the name leave the queue as it is; and what join
\* makes of wait_for's result is what that first publication carried.
C37_WaitForOneShot ==
    /\ [](\A t \in Threads : Len(q[t]) <= 1 /\ (q[t] # <<>> => listeners[t] = <<>>))
    /\ [][ \A t \in Threads :
              /\ (Listens(t, wait_event(op[t])) /\ Named(NewEmits, wait_event(op[t])) # <<>>) =>
                    /\ q'[t] = << Named(NewEmits, wait_event(op[t]))[1].e >>
                    /\ listeners'[t] = <<>>
              /\ (q[t] # <<>> /\ q'[t] # <<>>) => q'[t] = q[t]
              /\ (q[t] = <<>> /\ q'[t] # <<>>) => Listens(t, wait_event(op[t]))
              /\ (pc[t] = "wf_get" /\ pc'[t] = "j_close" /\ op[t] = "join") =>
                    /\ q[t] # <<>>
                    /\ rv'[t].kind = (IF q[t][1].ints = <<1, 1>> THEN "ok"
                                      ELSE IF q[t][1].ints = <<1, 0>> THEN "JoinFailed"
                                      ELSE "Exception") ]_vars

\* two notifications with different parameters were published while join
\* waited in wait_for, which has not resumed yet: its queue holds what the
\* first of them carried
C37_Witness ==
    /\ op[1] = "join" /\ pc[1] = "wf_get"
    /\ q[1] # <<>> /\ q[1][1].ints = <<1, 0>>
    /\ Len(Named(emitlog, "event")) = 2
    /\ Named(emitlog, "event")[1].e.ints = <<1, 0>>
    /\ Named(emitlog, "event")[2].e.ints = <<1, 1>>

\* where a thread is while it is inside the with block of SDK_AT
SdkSteps == {"sdk_drain", "sdk_write", "sdk_read"}

\* C38: in TowerSDK a Line goes to one place.  A Line with the prefix
\* '$LORA: ' is handled by the base engine without the prefix, which puts it
\* on the response queue or publishes it, and leaves the SDK response queue
\* alone; any other Line is put on the SDK response queue and nowhere else.
\* SDK_AT holds the lock from its drain to its return, leaves the drain only
\* when the SDK response queue is empty, writes 'AT', the command and a
\* carriage return once, and ends only on a Line 'OK', by returning, or on a
\* Line 'ERROR', by raising.
C38_TowerRouting ==
    /\ [](\A t \in Threads : pc[t] \in SdkSteps => lock = [owner |-> t, count |-> 1])
    /\ [][ /\ Len(nreadlog') > Len(nreadlog) =>
                 IF StartsWith(data, SDK_PREFIX)
                 THEN LET e == receive(From(data, 7), rx)
                      IN  /\ sdk_response' = sdk_response
                          /\ response' = response \o e.put
                          /\ [k \in 1..Len(NewEmits) |-> NewEmits[k].e] = e.emits
                          /\ ~e.raised => ((e.put = <<>>) <=> (e.emits # <<>>))
                 ELSE /\ sdk_response' = Append(sdk_response, data)
                      /\ response' = response
                      /\ NewEmits = <<>>
            /\ \A t \in Threads :
                 /\ (pc[t] = "sdk_lock" /\ pc'[t] # pc[t]) => pc'[t] = "sdk_drain"
                 /\ (pc[t] = "sdk_drain" /\ pc'[t] # pc[t]) =>
                       (sdk_response = <<>> /\ pc'[t] = "sdk_write" /\ tx' = tx)
                 /\ (pc[t] = "sdk_write" /\ pc'[t] # pc[t]) =>
                       (tx' = Append(tx, B_AT \o cmd[t] \o <<CR>>) /\ pc'[t] = "sdk_read")
                 /\ (pc[t] = "sdk_read" /\ pc'[t] # pc[t]) =>
                       /\ pc'[t] = "done"
                       /\ tx' = tx
                       /\ sdk_response # <<>>
                       /\ \/ Head(sdk_response) = SDK_OK /\ rv'[t].kind = "ok"
                          \/ Head(sdk_response) = SDK_ERROR /\ rv'[t].kind = "Exception"
                 /\ (pc[t] = "sdk_read" /\ sdk_response' # sdk_response /\ Len(nreadlog') = Len(nreadlog)
                        /\ Head(sdk_response) \notin {SDK_OK, SDK_ERROR}) => pc'[t] = "sdk_read" ]_vars

\* a Line with the prefix is on the response queue without it, a
\* notification with the prefix was published, and SDK_AT has returned on
\* 'OK' after a Line that was neither 'OK' nor 'ERROR'
C38_Witness ==
    /\ response = << B_OKEQ \o <<"5">> >>
    /\ \E i \in 1..Len(emitlog) : emitlog[i].e.name = "event"
    /\ \E t \in Threads : op[t] = "SDK_AT" /\ pc[t] = "done" /\ rv[t].kind = "ok"
    /\ \E i \in 1..Len(nreadlog) : rxlog[i] = <<"1">>

\* the threads whose command has been written to the link
Writers == { t \in Threads : Wrote(t) }

====
